---- MODULE Spec2Model ----
(***************************************************************************)
(* Incremental ETL and cross-source entity resolution.                     *)
(*                                                                         *)
(* The committed database is the five tables etl_checkpoints, raw_<source>,*)
(* normalized_crypto_assets, etl_runs and asset_mappings.  One execution   *)
(* of ETLService.run is a database session: its writes are pending until   *)
(* db.commit() and are discarded by db.rollback().                         *)
(***************************************************************************)
EXTENDS Integers, Sequences, FiniteSets, TLC

VARIABLES
    ckpt,       \* etl_checkpoints: source_name -> last_updated_at (NoCheckpoint: no row)
    raw,        \* raw_<source>: source_name -> sequence of committed raw rows
    canon,      \* normalized_crypto_assets: set of committed rows
    runs,       \* etl_runs: sequence of committed Run rows, index = run id
    sess,       \* one session per execution of ETLService.run, parallel to runs
    mappings,   \* asset_mappings: set of rows
    cache,      \* AssetUnificationService._cache: set of [key, asset_uid]
    resolved,   \* what resolve has returned: set of [source, id, asset_uid]
    last,       \* the arguments and result of the latest resolve call
    ncalls,     \* number of resolve calls made
    ubatch,     \* the fetched batch applied by the upsert harness
    ucount,     \* how many times the harness has applied ubatch
    ufirst,     \* the CanonicalAsset table after the first application
    sweep,      \* the execution of run_all: its position and its results dict
    runner,     \* the execution of IngestionRunner.run: position and aggregated dict
    checkpoint_dir, \* CheckpointManager.checkpoint_dir: source -> content of <source>.json
    saved,      \* history: source -> data of the latest completed save not deleted since
    cpcall      \* the latest CheckpointManager call and what it returned or raised

vars == <<ckpt, raw, canon, runs, sess, mappings, cache, resolved, last, ncalls,
          ubatch, ucount, ufirst, sweep, runner, checkpoint_dir, saved, cpcall>>

etlVars == <<ckpt, raw, canon, runs, sess>>
resolverVars == <<mappings, cache, resolved, last, ncalls>>
managerVars == <<checkpoint_dir, saved, cpcall>>
harnessVars == <<ubatch, ucount, ufirst, sweep, runner, managerVars>>

-----------------------------------------------------------------------------
(* Bounds *)

MaxBatch == 2
MaxRuns == 2
MaxCalls == 4
MaxApply == 2

-----------------------------------------------------------------------------
(* Values *)

NULL == "NULL"
NoCheckpoint == 0

Sources == {"coingecko", "coinpaprika"}

\* provider-asserted update times
Timestamps == {1, 2}

\* str.upper() on the strings of the model
Upper(s) ==
    CASE s = "btc" -> "BTC"
      [] s = "eth" -> "ETH"
      [] s = "xbt" -> "XBT"
      [] OTHER -> s

\* str.lower() on the strings of the model
Lower(s) ==
    CASE s = "BTC" -> "btc"
      [] s = "ETH" -> "eth"
      [] s = "XBT" -> "xbt"
      [] s = "Bitcoin" -> "bitcoin"
      [] s = "Wrapped Bitcoin" -> "wrapped bitcoin"
      [] OTHER -> s

\* "x or y" of Python on nullable strings
OrElse(x, y) == IF x = NULL \/ x = "" THEN y ELSE x

\* payload["id"] of a provider entry; a CSV row carries none
ProviderId(source, symbol) ==
    CASE source = "coingecko" /\ symbol = "btc" -> "bitcoin"
      [] source = "coingecko" /\ symbol = "ETH" -> "ethereum"
      [] source = "coinpaprika" /\ symbol = "btc" -> "btc-bitcoin"
      [] source = "coinpaprika" /\ symbol = "ETH" -> "eth-ethereum"
      [] OTHER -> NULL

\* A record as the adapters build it (CoinGeckoSource.fetch, CoinPaprikaSource.fetch):
\* payload id, symbol, name, price and the parsed timestamp.  price_usd stands for
\* the three numeric fields, which the code treats alike.
Record(source, symbol, price, ts) ==
    [id |-> ProviderId(source, symbol),
     symbol |-> symbol,
     name |-> IF symbol = "btc" THEN "Bitcoin" ELSE NULL,
     price_usd |-> price,
     source_updated_at |-> ts]

\* The records a provider's fetch() can return.  CoinGecko: "btc" at both
\* timestamps, a second "btc" entry with another price at timestamp 1 (a tie),
\* an upper-case symbol without a name, and an entry without a symbol.
\* CoinPaprika: "btc" at both timestamps, with a price of its own.
Upstream(source) ==
    IF source = "coingecko"
    THEN {Record(source, "btc", 1, t) : t \in Timestamps}
            \cup {Record(source, "btc", 2, 1), Record(source, "ETH", 1, 2),
                  Record(source, "", 1, 2)}
    ELSE {Record(source, "btc", 3, t) : t \in Timestamps}

\* the sequences of at most n entries of S, no entry twice: a provider's listing
\* holds each of its entries once
SeqsUpTo(S, n) ==
    UNION {{q \in [1..k -> S] : \A i, j \in 1..k : q[i] = q[j] => i = j}
              : k \in 0..n}

AllBatches == [source \in Sources |-> SeqsUpTo(Upstream(source), MaxBatch)]

\* what one call of fetch() can return
Batches(source) == AllBatches[source]

-----------------------------------------------------------------------------
(* Ingestion *)

\* the last_updated strings of the model that datetime.fromisoformat accepts
\* (after "Z" is replaced by "+00:00"), and the timestamp each one stands for
IsoTimestamps == {"2024-01-01T00:00:00Z", "2024-01-02T00:00:00Z"}

fromisoformat(value) == IF value = "2024-01-01T00:00:00Z" THEN 1 ELSE 2

\* _parse_timestamp that gives an entry it cannot date the oldest timestamp
parse_timestamp_defaulting(value) ==
    IF value \in IsoTimestamps THEN fromisoformat(value) ELSE 1

\* _parse_timestamp of the adapters; 0 is None: the value is missing or empty,
\* or fromisoformat raised and the exception was caught
parse_timestamp(value) ==
    IF value = NULL \/ value = "" THEN 0
    ELSE IF value \in IsoTimestamps THEN fromisoformat(value)
    ELSE 0

\* the entries a provider's endpoint can answer with: last_updated is a
\* timestamp, or missing, or empty, or not a timestamp at all
ProviderEntries(source) ==
    {[id |-> ProviderId(source, "btc"), symbol |-> "btc", name |-> "Bitcoin",
      current_price |-> 1, last_updated |-> t]
        : t \in IsoTimestamps \cup {NULL, ""}}
    \cup {[id |-> ProviderId(source, "ETH"), symbol |-> "ETH", name |-> NULL,
           current_price |-> 1, last_updated |-> "yesterday"]}

\* the loop of an adapter's fetch over the entries of the response
fetch(data) ==
    LET dated == SelectSeq(data, LAMBDA item : parse_timestamp(item.last_updated) # 0)
    IN  [i \in 1..Len(dated) |->
            [id |-> dated[i].id,
             symbol |-> dated[i].symbol,
             name |-> dated[i].name,
             price_usd |-> dated[i].current_price,
             source_updated_at |-> parse_timestamp(dated[i].last_updated)]]

\* filter_incremental that forgets the checkpoint
filter_incremental_unfiltered(records, checkpoint) == records

\* filter_incremental that also keeps the records dated at the checkpoint
filter_incremental_inclusive(records, checkpoint) ==
    IF checkpoint = NoCheckpoint
    THEN records
    ELSE SelectSeq(records,
                   LAMBDA rec : rec.source_updated_at # 0
                                /\ rec.source_updated_at >= checkpoint)

\* filter_incremental that returns nothing while there is no checkpoint
filter_incremental_no_initial_load(records, checkpoint) ==
    IF checkpoint = NoCheckpoint
    THEN <<>>
    ELSE SelectSeq(records,
                   LAMBDA rec : rec.source_updated_at # 0
                                /\ rec.source_updated_at > checkpoint)

\* BaseSource.filter_incremental
filter_incremental(records, checkpoint) ==
    IF checkpoint = NoCheckpoint
    THEN records
    ELSE SelectSeq(records,
                   LAMBDA rec : rec.source_updated_at # 0
                                /\ rec.source_updated_at > checkpoint)

-----------------------------------------------------------------------------
(* ETLService *)

\* the normalized_payload of one record
normalized_payload(rec, source) ==
    [asset_uid |-> Lower(Upper(OrElse(rec.symbol, ""))),
     symbol |-> Upper(OrElse(rec.symbol, "")),
     name |-> OrElse(rec.name, Upper(OrElse(rec.symbol, ""))),
     price_usd |-> rec.price_usd,
     source |-> source,
     source_updated_at |-> rec.source_updated_at]

IndexOfUid(rows, uid) ==
    IF \E i \in 1..Len(rows) : rows[i].asset_uid = uid
    THEN CHOOSE i \in 1..Len(rows) : rows[i].asset_uid = uid
    ELSE 0

\* the loop of _normalize without the timestamp comparison: a later record of an
\* asset_uid always replaces the earlier one
RECURSIVE normalize_loop_last_wins(_, _, _, _)
normalize_loop_last_wins(records, source, i, dedup) ==
    IF i > Len(records) THEN dedup
    ELSE LET rec == records[i]
             row == normalized_payload(rec, source)
             k == IndexOfUid(dedup, row.asset_uid)
         IN  IF Upper(OrElse(rec.symbol, "")) = ""
             THEN normalize_loop_last_wins(records, source, i + 1, dedup)
             ELSE IF k = 0
             THEN normalize_loop_last_wins(records, source, i + 1, Append(dedup, row))
             ELSE normalize_loop_last_wins(records, source, i + 1,
                                           [dedup EXCEPT ![k] = row])

\* the loop of _normalize without the test on the symbol: a record without a
\* symbol is normalized like any other
RECURSIVE normalize_loop_keeping_unnamed(_, _, _, _)
normalize_loop_keeping_unnamed(records, source, i, dedup) ==
    IF i > Len(records) THEN dedup
    ELSE LET row == normalized_payload(records[i], source)
             k == IndexOfUid(dedup, row.asset_uid)
         IN  IF k = 0
             THEN normalize_loop_keeping_unnamed(records, source, i + 1,
                                                 Append(dedup, row))
             ELSE IF row.source_updated_at # 0
                     /\ (dedup[k].source_updated_at = 0
                         \/ row.source_updated_at > dedup[k].source_updated_at)
             THEN normalize_loop_keeping_unnamed(records, source, i + 1,
                                                 [dedup EXCEPT ![k] = row])
             ELSE normalize_loop_keeping_unnamed(records, source, i + 1, dedup)

\* the loop of _normalize collecting the payloads in a list: every record
\* with a symbol gives a row
RECURSIVE normalize_loop_without_dedup(_, _, _, _)
normalize_loop_without_dedup(records, source, i, dedup) ==
    IF i > Len(records) THEN dedup
    ELSE IF Upper(OrElse(records[i].symbol, "")) = ""
    THEN normalize_loop_without_dedup(records, source, i + 1, dedup)
    ELSE normalize_loop_without_dedup(records, source, i + 1,
              Append(dedup, normalized_payload(records[i], source)))

\* the loop of _normalize over records[i..], dedup holding the rows kept so far
\* in first-insertion order (a dict keeps the position of a replaced value)
RECURSIVE normalize_loop(_, _, _, _)
normalize_loop(records, source, i, dedup) ==
    IF i > Len(records) THEN dedup
    ELSE LET rec == records[i]
             symbol == Upper(OrElse(rec.symbol, ""))
             row == normalized_payload(rec, source)
             k == IndexOfUid(dedup, row.asset_uid)
         IN  IF symbol = "" THEN normalize_loop(records, source, i + 1, dedup)
             ELSE IF k = 0
                  THEN normalize_loop(records, source, i + 1, Append(dedup, row))
             ELSE IF row.source_updated_at # 0
                     /\ (dedup[k].source_updated_at = 0
                         \/ row.source_updated_at > dedup[k].source_updated_at)
                  THEN normalize_loop(records, source, i + 1, [dedup EXCEPT ![k] = row])
             ELSE normalize_loop(records, source, i + 1, dedup)

\* ETLService._normalize
normalize(records, source) == normalize_loop(records, source, 1, <<>>)

RowsOf(rows) == {rows[i] : i \in 1..Len(rows)}

WithIngestedAt(row, now) ==
    [asset_uid |-> row.asset_uid, symbol |-> row.symbol, name |-> row.name,
     price_usd |-> row.price_usd, source |-> row.source,
     source_updated_at |-> row.source_updated_at, ingested_at |-> now]

\* _upsert_normalized as a plain INSERT into a table without the conflict clause
upsert_normalized_plain_insert(table, rows, now) ==
    table \cup {WithIngestedAt(r, now) : r \in RowsOf(rows)}

\* _upsert_normalized as a reload of the table: the rows of the batch replace
\* everything the table held
upsert_normalized_replacing_table(table, rows, now) ==
    IF rows = <<>> THEN table
    ELSE {WithIngestedAt(r, now) : r \in RowsOf(rows)}

\* ETLService._upsert_normalized: INSERT ... ON CONFLICT (asset_uid) DO UPDATE
upsert_normalized(table, rows, now) ==
    IF rows = <<>> THEN table
    ELSE {t \in table : \A r \in RowsOf(rows) : r.asset_uid # t.asset_uid}
            \cup {WithIngestedAt(r, now) : r \in RowsOf(rows)}

MaxOf(S) == CHOOSE x \in S : \A y \in S : y <= x

\* newest computed after normalization: over the records that have a symbol
newest_of_named(records) ==
    LET named == {i \in 1..Len(records) : OrElse(records[i].symbol, "") # ""}
    IN  IF named = {} THEN NoCheckpoint
        ELSE MaxOf({records[i].source_updated_at : i \in named})

\* newest of _advance_checkpoint
newest(records) == MaxOf({records[i].source_updated_at : i \in 1..Len(records)})

\* the raw rows _persist_raw inserts for a batch
raw_rows(records) ==
    [i \in 1..Len(records) |->
        [payload |-> records[i], source_updated_at |-> records[i].source_updated_at]]

NoTx == [raw |-> <<>>, canon |-> <<>>, ckpt |-> NoCheckpoint]

NewSession ==
    [pc |-> "started", last_checkpoint |-> NoCheckpoint, raw_records |-> <<>>,
     normalized |-> <<>>, tx |-> NoTx, outcome |-> "none"]

\* the session of an execution that has returned or raised: its objects are gone
Finished(outcome) == [NewSession EXCEPT !.pc = "done", !.outcome = outcome]

\* the logical time of datetime.now(): the number of runs started so far
Now == Len(runs)

RunIds == 1..Len(runs)

InProgress(r) == sess[r].pc # "done"

\* ETLService.run, lines 48-51: the Run row is committed in status running
StartRun(source) ==
    /\ Len(runs) < MaxRuns
    /\ runs' = Append(runs, [source_name |-> source, status |-> "running",
                             records_processed |-> 0, error_message |-> NULL,
                             ended_at |-> 0])
    /\ sess' = Append(sess, NewSession)
    /\ UNCHANGED <<ckpt, raw, canon>>

\* a caller that starts a run only when no other run is in progress
StartRunSequential(source) ==
    /\ \A r \in RunIds : ~InProgress(r)
    /\ StartRun(source)
    /\ UNCHANGED <<resolverVars, harnessVars>>

\* a run that does not look at the stored checkpoint
LoadCheckpointIgnored(r) ==
    /\ sess[r].pc = "started"
    /\ sess' = [sess EXCEPT ![r].pc = "loaded"]
    /\ UNCHANGED <<ckpt, raw, canon, runs, resolverVars, harnessVars>>

\* ETLService.run, line 54: _load_checkpoint
LoadCheckpoint(r) ==
    /\ sess[r].pc = "started"
    /\ sess' = [sess EXCEPT ![r].pc = "loaded",
                            ![r].last_checkpoint = ckpt[runs[r].source_name]]
    /\ UNCHANGED <<ckpt, raw, canon, runs, resolverVars, harnessVars>>

\* a runner that keeps the checkpoints itself: it stores the newest timestamp
\* it has handed on
FetchAdvancingCheckpoint(r, data) ==
    LET fresh == filter_incremental(data, sess[r].last_checkpoint)
    IN  /\ sess[r].pc = "loaded"
        /\ sess' = [sess EXCEPT ![r].pc = "fetched", ![r].raw_records = fresh]
        /\ ckpt' = IF fresh = <<>> THEN ckpt
                   ELSE [ckpt EXCEPT ![runs[r].source_name] = newest(fresh)]
        /\ UNCHANGED <<raw, canon, runs, resolverVars, harnessVars>>

\* ETLService.run, line 58: _fetch_source = IngestionRunner.run on one source
Fetch(r, data) ==
    /\ sess[r].pc = "loaded"
    /\ sess' = [sess EXCEPT ![r].pc = "fetched",
                            ![r].raw_records =
                                filter_incremental(data, sess[r].last_checkpoint)]
    /\ UNCHANGED <<ckpt, raw, canon, runs, resolverVars, harnessVars>>

\* ETLService.run, lines 60-65: nothing fresh
EmptySuccess(r) ==
    /\ sess[r].pc = "fetched"
    /\ sess[r].raw_records = <<>>
    /\ runs' = [runs EXCEPT ![r].status = "success", ![r].ended_at = Now]
    /\ sess' = [sess EXCEPT ![r] = Finished("returned")]
    /\ UNCHANGED <<ckpt, raw, canon, resolverVars, harnessVars>>

\* _persist_raw that commits the raw rows at once, apart from the run's transaction
PersistRawAutocommit(r) ==
    /\ sess[r].pc = "fetched"
    /\ sess[r].raw_records # <<>>
    /\ sess' = [sess EXCEPT ![r].pc = "raw_persisted"]
    /\ raw' = [raw EXCEPT ![runs[r].source_name] = @ \o raw_rows(sess[r].raw_records)]
    /\ UNCHANGED <<ckpt, canon, runs, resolverVars, harnessVars>>

\* ETLService.run, line 68: _persist_raw, pending in the session
PersistRaw(r) ==
    /\ sess[r].pc = "fetched"
    /\ sess[r].raw_records # <<>>
    /\ sess' = [sess EXCEPT ![r].pc = "raw_persisted",
                            ![r].tx.raw = raw_rows(sess[r].raw_records)]
    /\ UNCHANGED <<ckpt, raw, canon, runs, resolverVars, harnessVars>>

\* ETLService.run, line 71: _normalize
Normalize(r) ==
    /\ sess[r].pc = "raw_persisted"
    /\ sess' = [sess EXCEPT ![r].pc = "normalized",
                            ![r].normalized =
                                normalize(sess[r].raw_records, runs[r].source_name)]
    /\ UNCHANGED <<ckpt, raw, canon, runs, resolverVars, harnessVars>>

\* ETLService.run, line 72: _upsert_normalized, pending in the session
Upsert(r) ==
    /\ sess[r].pc = "normalized"
    /\ sess' = [sess EXCEPT ![r].pc = "upserted",
                            ![r].tx.canon = sess[r].normalized]
    /\ UNCHANGED <<ckpt, raw, canon, runs, resolverVars, harnessVars>>

\* _advance_checkpoint that commits the checkpoint at once
AdvanceCheckpointAutocommit(r) ==
    /\ sess[r].pc = "upserted"
    /\ sess' = [sess EXCEPT ![r].pc = "advanced"]
    /\ ckpt' = [ckpt EXCEPT ![runs[r].source_name] = newest(sess[r].raw_records)]
    /\ UNCHANGED <<raw, canon, runs, resolverVars, harnessVars>>

\* ETLService.run, line 75: _advance_checkpoint, pending in the session
AdvanceCheckpoint(r) ==
    /\ sess[r].pc = "upserted"
    /\ sess' = [sess EXCEPT ![r].pc = "advanced",
                            ![r].tx.ckpt = newest(sess[r].raw_records)]
    /\ UNCHANGED <<ckpt, raw, canon, runs, resolverVars, harnessVars>>

\* a commit that stores the pending checkpoint in the row of every source
CommitTxAnyCheckpointRow(r) ==
    LET s == runs[r].source_name
        tx == sess[r].tx
    IN  /\ raw' = [raw EXCEPT ![s] = raw[s] \o tx.raw]
        /\ canon' = upsert_normalized(canon, tx.canon, Now)
        /\ ckpt' = [x \in Sources |-> IF tx.ckpt # NoCheckpoint THEN tx.ckpt ELSE ckpt[x]]

\* db.commit() of a session: its pending writes become the committed tables
CommitTx(r) ==
    LET s == runs[r].source_name
        tx == sess[r].tx
    IN  /\ raw' = [raw EXCEPT ![s] = raw[s] \o tx.raw]
        /\ canon' = upsert_normalized(canon, tx.canon, Now)
        /\ ckpt' = [ckpt EXCEPT ![s] = IF tx.ckpt # NoCheckpoint THEN tx.ckpt ELSE @]

\* a success commit that reports the number of fetched records
CommitSuccessCountingFetched(r) ==
    /\ sess[r].pc = "advanced"
    /\ CommitTx(r)
    /\ runs' = [runs EXCEPT ![r].status = "success",
                            ![r].records_processed = Len(sess[r].raw_records),
                            ![r].ended_at = Now]
    /\ sess' = [sess EXCEPT ![r] = Finished("returned")]
    /\ UNCHANGED <<resolverVars, harnessVars>>

\* ETLService.run, lines 78-84: mark the run success and commit
CommitSuccess(r) ==
    /\ sess[r].pc = "advanced"
    /\ CommitTx(r)
    /\ runs' = [runs EXCEPT ![r].status = "success",
                            ![r].records_processed = Len(sess[r].normalized),
                            ![r].ended_at = Now]
    /\ sess' = [sess EXCEPT ![r] = Finished("returned")]
    /\ UNCHANGED <<resolverVars, harnessVars>>

\* an exception handler that can also run after the success commit
FailPointsAfterCommit ==
    {"started", "loaded", "fetched", "raw_persisted", "normalized", "upserted",
     "advanced", "done"}

\* the places of the try block an exception can come from
FailPoints ==
    {"started", "loaded", "fetched", "raw_persisted", "normalized", "upserted", "advanced"}

\* the statement of the try block that raises when the run is at pc
FailingStep(r) ==
    CASE sess[r].pc = "started" -> "load_checkpoint"
      [] sess[r].pc = "loaded" -> "fetch"
      [] sess[r].pc = "fetched" ->
            IF sess[r].raw_records = <<>> THEN "commit" ELSE "persist_raw"
      [] sess[r].pc = "raw_persisted" -> "normalize"
      [] sess[r].pc = "normalized" -> "upsert"
      [] sess[r].pc = "upserted" -> "advance_checkpoint"
      [] OTHER -> "commit"

\* the exception handler without db.rollback(): its commit keeps the pending writes
FailWithoutRollback(r) ==
    /\ sess[r].pc \in FailPoints
    /\ CommitTx(r)
    /\ runs' = [runs EXCEPT ![r].status = "failure",
                            ![r].error_message = FailingStep(r) \o " failed",
                            ![r].ended_at = Now]
    /\ sess' = [sess EXCEPT ![r] = Finished("raised")]
    /\ UNCHANGED <<resolverVars, harnessVars>>

\* a pipeline in which an exception of the adapter's fetch is swallowed and
\* taken for an empty batch: the run ends in success
FailSwallowingFetchError(r) ==
    /\ sess[r].pc \in FailPoints
    /\ runs' = IF sess[r].pc = "loaded"
               THEN [runs EXCEPT ![r].status = "success", ![r].ended_at = Now]
               ELSE [runs EXCEPT ![r].status = "failure",
                                 ![r].error_message = FailingStep(r) \o " failed",
                                 ![r].ended_at = Now]
    /\ sess' = [sess EXCEPT ![r] = Finished(IF sess[r].pc = "loaded"
                                            THEN "returned" ELSE "raised")]
    /\ UNCHANGED <<ckpt, raw, canon, resolverVars, harnessVars>>

\* an exception handler that rolls the batch back but keeps the checkpoint the
\* run had reached: the newest timestamp of the batch it fetched
FailKeepingCheckpoint(r) ==
    /\ sess[r].pc \in FailPoints
    /\ runs' = [runs EXCEPT ![r].status = "failure",
                            ![r].error_message = FailingStep(r) \o " failed",
                            ![r].ended_at = Now]
    /\ sess' = [sess EXCEPT ![r] = Finished("raised")]
    /\ ckpt' = IF sess[r].raw_records # <<>>
               THEN [ckpt EXCEPT ![runs[r].source_name] = newest(sess[r].raw_records)]
               ELSE ckpt
    /\ UNCHANGED <<raw, canon, resolverVars, harnessVars>>

\* an exception handler that also stores the number of rows normalized so far
FailKeepingCount(r) ==
    /\ sess[r].pc \in FailPoints
    /\ runs' = [runs EXCEPT ![r].status = "failure",
                            ![r].records_processed = Len(sess[r].normalized),
                            ![r].error_message = FailingStep(r) \o " failed",
                            ![r].ended_at = Now]
    /\ sess' = [sess EXCEPT ![r] = Finished("raised")]
    /\ UNCHANGED <<ckpt, raw, canon, resolverVars, harnessVars>>

\* ETLService.run, lines 86-94: rollback, mark the run failure, commit, re-raise
Fail(r) ==
    /\ sess[r].pc \in FailPoints
    /\ runs' = [runs EXCEPT ![r].status = "failure",
                            ![r].error_message = FailingStep(r) \o " failed",
                            ![r].ended_at = Now]
    /\ sess' = [sess EXCEPT ![r] = Finished("raised")]
    /\ UNCHANGED <<ckpt, raw, canon, resolverVars, harnessVars>>

-----------------------------------------------------------------------------
(* ETLService.run_all *)

\* the sources of run_all; "csv" is appended only when the CSV file exists
RunAllSources == <<"coingecko", "coinpaprika">>

\* no run_all is executing.  first_run is the id of the Run row before the
\* first one of the sweep; run is the id of the run awaited, 0 between two runs
NoSweep == [pc |-> "idle", todo |-> <<>>, first_run |-> 0, run |-> 0, results |-> <<>>]

sweepFrame == <<resolverVars, ubatch, ucount, ufirst, runner, managerVars>>

\* run_all, lines 98-104: the source list and the empty results dict
RunAllBegin ==
    /\ sweep.pc \in {"idle", "ended"}
    /\ \A r \in RunIds : ~InProgress(r)
    /\ Len(runs) < MaxRuns
    /\ sweep' = [pc |-> "running", todo |-> RunAllSources, first_run |-> Len(runs),
                 run |-> 0, results |-> <<>>]
    /\ UNCHANGED <<etlVars, sweepFrame>>

\* run_all, lines 105-107: the next source of the loop: await self.run(source)
RunAllStartRun ==
    /\ sweep.pc = "running"
    /\ sweep.run = 0
    /\ sweep.todo # <<>>
    /\ StartRun(Head(sweep.todo))
    /\ sweep' = [sweep EXCEPT !.run = Len(runs) + 1, !.todo = Tail(sweep.todo)]
    /\ UNCHANGED sweepFrame

\* the entry of results[source]: what run returned, or the handler's entry
result_entry(r) ==
    IF sess[r].outcome = "returned"
    THEN [source |-> runs[r].source_name, success |-> TRUE,
          records_processed |-> runs[r].records_processed, error |-> NULL]
    ELSE [source |-> runs[r].source_name, success |-> FALSE,
          records_processed |-> NULL, error |-> runs[r].error_message]

\* a loop without the try/except: the exception of run ends run_all
RunAllCollectReraise ==
    /\ sweep.pc = "running"
    /\ sweep.run # 0
    /\ ~InProgress(sweep.run)
    /\ sweep' = IF sess[sweep.run].outcome = "returned"
                THEN [sweep EXCEPT !.run = 0,
                                   !.results = Append(@, result_entry(sweep.run))]
                ELSE [sweep EXCEPT !.run = 0, !.pc = "ended"]
    /\ UNCHANGED <<etlVars, sweepFrame>>

\* run_all, lines 106-110: results[source] is what run returned or, when run
\* raised, {"success": False, "error": str(exc), "source": source}
RunAllCollect ==
    /\ sweep.pc = "running"
    /\ sweep.run # 0
    /\ ~InProgress(sweep.run)
    /\ sweep' = [sweep EXCEPT !.run = 0,
                              !.results = Append(@, result_entry(sweep.run))]
    /\ UNCHANGED <<etlVars, sweepFrame>>

\* run_all, line 112: return results
RunAllReturn ==
    /\ sweep.pc = "running"
    /\ sweep.run = 0
    /\ sweep.todo = <<>>
    /\ sweep' = [sweep EXCEPT !.pc = "ended"]
    /\ UNCHANGED <<etlVars, sweepFrame>>

-----------------------------------------------------------------------------
(* AssetUnificationService: resolution *)

\* str.strip() on the strings of the model
Strip(s) == CASE s = " BTC" -> "BTC" [] s = " XBT" -> "XBT" [] OTHER -> s

\* AssetUnificationService._normalize_name: lower-case, drop punctuation,
\* collapse whitespace
normalize_name(name) ==
    CASE name = "Bitcoin" -> "bitcoin"
      [] name = "Wrapped Bitcoin" -> "wrapped bitcoin"
      [] name = "Bit-Coin" -> "bitcoin"
      [] OTHER -> Lower(name)

\* str.replace(' ', '-') on the normalized names of the model
Hyphenate(s) == CASE s = "wrapped bitcoin" -> "wrapped-bitcoin" [] OTHER -> s

Truthy(x) == x # NULL /\ x # ""

\* the cache_key of resolve
cache_key(source, symbol, coingecko_id, coinpaprika_id) ==
    <<source, Upper(symbol), OrElse(coingecko_id, ""), OrElse(coinpaprika_id, "")>>

\* AssetUnificationService._lookup_by_source_id: the asset_uids the query's
\* first() can return (none: the empty set)
lookup_by_source_id(maps, coingecko_id, coinpaprika_id) ==
    LET byCg == {m \in maps : m.coingecko_id = coingecko_id}
        byCp == {m \in maps : m.coinpaprika_id = coinpaprika_id}
    IN  IF Truthy(coingecko_id) /\ byCg # {} THEN {m.asset_uid : m \in byCg}
        ELSE IF Truthy(coinpaprika_id) /\ byCp # {} THEN {m.asset_uid : m \in byCp}
        ELSE {}

\* _lookup_by_symbol_name without the comparison of names: with several
\* candidates any of them is returned
lookup_by_symbol_name_any_candidate(maps, symbol, name) ==
    {m.asset_uid : m \in {x \in maps : x.symbol = Strip(Upper(symbol))}}

\* AssetUnificationService._lookup_by_symbol_name: the asset_uids it can return.
\* The query has no ORDER BY, so with several candidates "the first" is any of
\* those the loop can meet first.
lookup_by_symbol_name(maps, symbol, name) ==
    LET cands == {m \in maps : m.symbol = Strip(Upper(symbol))}
        named == {m \in cands : normalize_name(m.name) = normalize_name(name)}
    IN  IF cands = {} THEN {}
        ELSE IF Cardinality(cands) = 1 THEN {m.asset_uid : m \in cands}
        ELSE IF named # {} THEN {m.asset_uid : m \in named}
        ELSE {m.asset_uid : m \in cands}

\* AssetUnificationService._generate_canonical_id
generate_canonical_id(coingecko_id, coinpaprika_id, symbol, name) ==
    IF Truthy(coingecko_id) THEN Lower(coingecko_id)
    ELSE IF Truthy(coinpaprika_id) THEN Lower(coinpaprika_id)
    ELSE IF Hyphenate(normalize_name(name)) # "" THEN Hyphenate(normalize_name(name))
    ELSE Lower(symbol)

\* AssetUnificationService._update_mapping_source_id
update_mapping_source_id(maps, asset_uid, coingecko_id, coinpaprika_id) ==
    {IF m.asset_uid # asset_uid THEN m
     ELSE [m EXCEPT
            !.coingecko_id =
                IF Truthy(coingecko_id) /\ ~Truthy(m.coingecko_id)
                THEN coingecko_id ELSE @,
            !.coinpaprika_id =
                IF Truthy(coinpaprika_id) /\ ~Truthy(m.coinpaprika_id)
                THEN coinpaprika_id ELSE @]
     : m \in maps}

\* AssetUnificationService._create_mapping:
\* INSERT ... ON CONFLICT (asset_uid) DO UPDATE SET coingecko_id, coinpaprika_id
create_mapping(maps, asset_uid, symbol, name, coingecko_id, coinpaprika_id) ==
    IF \E m \in maps : m.asset_uid = asset_uid
    THEN {IF m.asset_uid # asset_uid THEN m
          ELSE [m EXCEPT !.coingecko_id = coingecko_id,
                         !.coinpaprika_id = coinpaprika_id]
          : m \in maps}
    ELSE maps \cup {[asset_uid |-> asset_uid, coingecko_id |-> coingecko_id,
                     coinpaprika_id |-> coinpaprika_id, symbol |-> Upper(symbol),
                     name |-> name]}

CachedUid(cch, key) == (CHOOSE e \in cch : e.key = key).asset_uid

CachePut(cch, key, asset_uid) ==
    {e \in cch : e.key # key} \cup {[key |-> key, asset_uid |-> asset_uid]}

\* AssetUnificationService.resolve: the outcomes the call can have from the
\* mapping table maps and the cache cch: the asset_uid returned, the strategy
\* that answered, and the table and cache it leaves
resolve(maps, cch, source, symbol, name, id) ==
    LET coingecko_id == IF source = "coingecko" THEN id ELSE NULL
        coinpaprika_id == IF source = "coinpaprika" THEN id ELSE NULL
        key == cache_key(source, symbol, coingecko_id, coinpaprika_id)
        byId == lookup_by_source_id(maps, coingecko_id, coinpaprika_id)
        bySymbol == lookup_by_symbol_name(maps, symbol, name)
        fresh == generate_canonical_id(coingecko_id, coinpaprika_id, symbol, name)
    IN  IF \E e \in cch : e.key = key
        THEN {[asset_uid |-> CachedUid(cch, key), strategy |-> "cache",
               mappings |-> maps, cache |-> cch]}
        ELSE IF byId # {}
        THEN {[asset_uid |-> u, strategy |-> "source_id",
               mappings |-> maps, cache |-> CachePut(cch, key, u)] : u \in byId}
        ELSE IF bySymbol # {}
        THEN {[asset_uid |-> u, strategy |-> "symbol_name",
               mappings |-> update_mapping_source_id(maps, u, coingecko_id,
                                                     coinpaprika_id),
               cache |-> CachePut(cch, key, u)] : u \in bySymbol}
        ELSE {[asset_uid |-> fresh, strategy |-> "new",
               mappings |-> create_mapping(maps, fresh, symbol, name,
                                           coingecko_id, coinpaprika_id),
               cache |-> CachePut(cch, key, fresh)]}

NoCall == [source |-> NULL, symbol |-> NULL, name |-> NULL, id |-> NULL,
           asset_uid |-> NULL, strategy |-> NULL]

\* the provider ids a payload of the source can carry; a CSV row carries none
PayloadIds(source) ==
    CASE source = "coingecko" -> {"bitcoin", "btc2"}
      [] source = "coinpaprika" -> {"btc-bitcoin"}
      [] OTHER -> {NULL}

ResolverSources == {"coingecko", "coinpaprika", "csv"}
ResolverSymbols == {"btc", "XBT"}
ResolverNames == {"Bitcoin", "Wrapped Bitcoin"}

\* one call of resolve(source, symbol, name, payload)
Resolve(source, symbol, name, id) ==
    /\ ncalls < MaxCalls
    /\ \E out \in resolve(mappings, cache, source, symbol, name, id) :
          /\ mappings' = out.mappings
          /\ cache' = out.cache
          /\ last' = [source |-> source, symbol |-> symbol, name |-> name, id |-> id,
                      asset_uid |-> out.asset_uid, strategy |-> out.strategy]
          /\ resolved' = resolved \cup
                {[source |-> source, id |-> id, asset_uid |-> out.asset_uid]}
    /\ ncalls' = ncalls + 1
    /\ UNCHANGED <<etlVars, harnessVars>>

\* the cache is dropped: a new AssetUnificationService starts with an empty one
ClearCache ==
    /\ cache # {}
    /\ cache' = {}
    /\ UNCHANGED <<mappings, resolved, last, ncalls, etlVars, harnessVars>>

-----------------------------------------------------------------------------
(* IngestionRunner (ingestion/runner.py)                                     *)

\* no IngestionRunner.run is executing
NoRunnerCall ==
    [pc |-> "idle", sources |-> <<>>, todo |-> <<>>,
     checkpoints |-> [s \in Sources |-> NoCheckpoint],
     aggregated |-> {}, failed |-> {}]

\* the source lists a runner is constructed with
RunnerSources == SeqsUpTo(Sources, 2)

\* the checkpoints dict of a call; a missing key reads as None (NoCheckpoint)
RunnerCheckpoints == [Sources -> {NoCheckpoint} \cup Timestamps]

\* IngestionRunner.run, lines 21-22: the checkpoints and the empty dict
RunnerBegin(sources, checkpoints) ==
    /\ runner.pc \in {"idle", "returned", "raised"}
    /\ runner' = [pc |-> "running", sources |-> sources, todo |-> sources,
                  checkpoints |-> checkpoints, aggregated |-> {}, failed |-> {}]
    /\ UNCHANGED <<etlVars, resolverVars, ubatch, ucount, ufirst, sweep, managerVars>>

\* IngestionRunner.run, lines 24-28: one iteration whose fetch returns data
RunnerFetch ==
    /\ runner.pc = "running"
    /\ runner.todo # <<>>
    /\ \E data \in Batches(Head(runner.todo)) :
          LET source == Head(runner.todo)
              filtered == filter_incremental(data, runner.checkpoints[source])
          IN runner' = [runner EXCEPT
                           !.aggregated = @ \cup {[source |-> source,
                                                   records |-> filtered]},
                           !.todo = Tail(@)]
    /\ UNCHANGED <<etlVars, resolverVars, ubatch, ucount, ufirst, sweep, managerVars>>

\* IngestionRunner.run, line 25: the awaited fetch raises; the loop has no
\* handler, so the exception leaves run and the aggregated dict is lost
RunnerFetchRaises ==
    /\ runner.pc = "running"
    /\ runner.todo # <<>>
    /\ runner' = [runner EXCEPT !.pc = "raised", !.failed = @ \cup {Head(runner.todo)}]
    /\ UNCHANGED <<etlVars, resolverVars, ubatch, ucount, ufirst, sweep, managerVars>>

\* IngestionRunner.run, line 29: return aggregated
RunnerReturn ==
    /\ runner.pc = "running"
    /\ runner.todo = <<>>
    /\ runner' = [runner EXCEPT !.pc = "returned"]
    /\ UNCHANGED <<etlVars, resolverVars, ubatch, ucount, ufirst, sweep, managerVars>>

-----------------------------------------------------------------------------
(* CheckpointManager (core/checkpoints.py)                                   *)

\* the dicts handed to save_checkpoint: one item each, whose key is a str or
\* an int and whose value is a JSON value or a datetime
CheckpointData ==
    {[key_type |-> "str", key |-> "last_id", value_type |-> "int", value |-> "100"],
     [key_type |-> "str", key |-> "last_id", value_type |-> "int", value |-> "200"],
     [key_type |-> "int", key |-> "1", value_type |-> "str", value |-> "x"],
     [key_type |-> "str", key |-> "last_timestamp", value_type |-> "datetime",
      value |-> "2024-01-01 00:00:00"]}

\* None, and a dict d, as the values a call returns: {} and {d}
None == {}
Some(d) == {d}

\* the checkpoint file of a source that has none
NoFile == [text |-> "absent", data |-> None]

\* what json.dump leaves in the file when it raises TypeError on a value it
\* cannot encode: the text written before that value
TruncatedFile == [text |-> "truncated", data |-> None]

\* json.dump raises TypeError on a datetime value
JsonSerializable(data) == data.value_type # "datetime"

\* json.dump of {"timestamp": ..., "data": checkpoint_data} into the opened
\* file: the keys of a dict are written as strings
json_dump(data) ==
    IF JsonSerializable(data)
    THEN [text |-> "document", data |-> Some([data EXCEPT !.key_type = "str"])]
    ELSE TruncatedFile

\* json.load(f).get("data"): raises JSONDecodeError on a truncated document
json_load(file) ==
    IF file.text = "truncated"
    THEN [raised |-> "JSONDecodeError", value |-> None]
    ELSE [raised |-> "", value |-> file.data]

Returned(value) == [raised |-> "", value |-> value]

NoManagerCall == [op |-> "none", source |-> "coingecko", result |-> Returned(None)]

\* CheckpointManager.save_checkpoint: open(..., "w") truncates the file, then
\* json.dump writes the document or raises part-way
save_checkpoint(source, checkpoint_data) ==
    /\ checkpoint_dir' = [checkpoint_dir EXCEPT ![source] = json_dump(checkpoint_data)]
    /\ saved' = IF JsonSerializable(checkpoint_data)
                THEN [saved EXCEPT ![source] = Some(checkpoint_data)]
                ELSE saved
    /\ cpcall' = [op |-> "save", source |-> source,
                  result |-> IF JsonSerializable(checkpoint_data)
                             THEN Returned(None)
                             ELSE [raised |-> "TypeError", value |-> None]]
    /\ UNCHANGED <<etlVars, resolverVars, ubatch, ucount, ufirst, sweep, runner>>

\* CheckpointManager.load_checkpoint
load_checkpoint(source) ==
    /\ cpcall' = [op |-> "load", source |-> source,
                  result |-> IF checkpoint_dir[source].text = "absent"
                             THEN Returned(None)
                             ELSE json_load(checkpoint_dir[source])]
    /\ UNCHANGED <<etlVars, resolverVars, ubatch, ucount, ufirst, sweep, runner,
                   checkpoint_dir, saved>>

\* CheckpointManager.delete_checkpoint
delete_checkpoint(source) ==
    /\ checkpoint_dir' = [checkpoint_dir EXCEPT ![source] = NoFile]
    /\ saved' = [saved EXCEPT ![source] = None]
    /\ cpcall' = [op |-> "delete", source |-> source, result |-> Returned(None)]
    /\ UNCHANGED <<etlVars, resolverVars, ubatch, ucount, ufirst, sweep, runner>>

InitUtilitiesIdle ==
    /\ runner = NoRunnerCall
    /\ checkpoint_dir = [s \in Sources |-> NoFile]
    /\ saved = [s \in Sources |-> None]
    /\ cpcall = NoManagerCall

-----------------------------------------------------------------------------
(* Specification of the ETL runs, started one at a time *)

WELL_KNOWN_ASSETS ==
    {[asset_uid |-> "bitcoin", coingecko_id |-> "bitcoin",
      coinpaprika_id |-> "btc-bitcoin", symbol |-> "BTC", name |-> "Bitcoin"]}

InitResolverIdle ==
    /\ mappings = WELL_KNOWN_ASSETS
    /\ cache = {}
    /\ resolved = {}
    /\ last = NoCall
    /\ ncalls = 0

InitHarnessIdle ==
    /\ ubatch = [source |-> "coingecko", records |-> <<>>]
    /\ ucount = 0
    /\ ufirst = {}
    /\ sweep = NoSweep
    /\ InitUtilitiesIdle

InitEtl ==
    /\ ckpt = [s \in Sources |-> NoCheckpoint]
    /\ raw = [s \in Sources |-> <<>>]
    /\ canon = {}
    /\ runs = <<>>
    /\ sess = <<>>

Init == InitEtl /\ InitResolverIdle /\ InitHarnessIdle

Next ==
    \/ \E source \in Sources : StartRunSequential(source)
    \/ \E r \in RunIds : LoadCheckpoint(r)
    \/ \E r \in RunIds : \E data \in Batches(runs[r].source_name) : Fetch(r, data)
    \/ \E r \in RunIds : EmptySuccess(r)
    \/ \E r \in RunIds : PersistRaw(r)
    \/ \E r \in RunIds : Normalize(r)
    \/ \E r \in RunIds : Upsert(r)
    \/ \E r \in RunIds : AdvanceCheckpoint(r)
    \/ \E r \in RunIds : CommitSuccess(r)
    \/ \E r \in RunIds : Fail(r)

Spec == Init /\ [][Next]_vars

-----------------------------------------------------------------------------
(* Specification of the calls of IngestionRunner.run *)

InitRunner == InitEtl /\ InitResolverIdle /\ InitHarnessIdle

NextRunner ==
    \/ \E sources \in RunnerSources, checkpoints \in RunnerCheckpoints :
          RunnerBegin(sources, checkpoints)
    \/ RunnerFetch
    \/ RunnerFetchRaises
    \/ RunnerReturn

SpecRunner == InitRunner /\ [][NextRunner]_vars

-----------------------------------------------------------------------------
(* Specification of the calls made on one CheckpointManager *)

InitCheckpointManager == InitEtl /\ InitResolverIdle /\ InitHarnessIdle

NextCheckpointManager ==
    \/ \E source \in Sources, data \in CheckpointData : save_checkpoint(source, data)
    \/ \E source \in Sources : load_checkpoint(source)
    \/ \E source \in Sources : delete_checkpoint(source)

SpecCheckpointManager == InitCheckpointManager /\ [][NextCheckpointManager]_vars

-----------------------------------------------------------------------------
(* Normalize + upsert of one fetched batch, applied repeatedly to a table   *)

\* the CanonicalAsset tables an earlier run can have left
InitialTables ==
    UNION {{upsert_normalized({}, normalize(b, src), 0) : b \in Batches(src)}
              : src \in Sources}

\* ETLService.run, lines 71-72, on the table itself
ApplyBatch ==
    /\ ucount < MaxApply
    /\ canon' = upsert_normalized(canon, normalize(ubatch.records, ubatch.source),
                                  ucount + 1)
    /\ ucount' = ucount + 1
    /\ ufirst' = IF ucount = 0 THEN canon' ELSE ufirst
    /\ UNCHANGED <<ckpt, raw, runs, sess, ubatch, sweep, runner, managerVars,
                   resolverVars>>

InitUpsert ==
    /\ ckpt = [s \in Sources |-> NoCheckpoint]
    /\ raw = [s \in Sources |-> <<>>]
    /\ runs = <<>>
    /\ sess = <<>>
    /\ InitResolverIdle
    /\ canon \in InitialTables
    /\ ubatch \in UNION {{[source |-> src, records |-> b] : b \in Batches(src)}
                           : src \in Sources}
    /\ ucount = 0
    /\ ufirst = {}
    /\ sweep = NoSweep
    /\ InitUtilitiesIdle

NextUpsert == ApplyBatch

SpecUpsert == InitUpsert /\ [][NextUpsert]_vars

-----------------------------------------------------------------------------
(* Specification of the resolver: resolve calls and cache drops on a table  *)
(* that is empty or holds the fallback seed                                 *)

InitResolve ==
    /\ InitEtl
    /\ InitHarnessIdle
    /\ mappings \in {{}, WELL_KNOWN_ASSETS}
    /\ cache = {}
    /\ resolved = {}
    /\ last = NoCall
    /\ ncalls = 0

NextResolve ==
    \/ \E source \in ResolverSources, symbol \in ResolverSymbols,
          name \in ResolverNames :
          \E id \in PayloadIds(source) : Resolve(source, symbol, name, id)
    \/ ClearCache

SpecResolve == InitResolve /\ [][NextResolve]_vars

-----------------------------------------------------------------------------
(* Specification of the ETL runs started by the trigger routes: a request   *)
(* starts its run whatever the other requests are doing.  The handlers are   *)
(* coroutines of one event loop: a run gives way to the others only in the   *)
(* await of its fetch.                                                       *)

\* the run is not on the event loop: it waits in "await self._fetch_source" or
\* has ended
Suspended(r) == sess[r].pc \in {"loaded", "done"}

\* run r can take a step: no other run is between two of its awaits
OnLoop(r) == \A q \in RunIds \ {r} : Suspended(q)

\* what fetch() returns to the concurrent runs: at most one record
ShortBatches == [source \in Sources |-> SeqsUpTo(Upstream(source), 1)]

\* POST /etl/run/{source}: ETLService(db).run(source) in the request's own session
TriggerEtl(source) ==
    /\ \A q \in RunIds : Suspended(q)
    /\ StartRun(source)
    /\ UNCHANGED <<resolverVars, harnessVars>>

NextTriggered ==
    \/ \E source \in Sources : TriggerEtl(source)
    \/ \E r \in RunIds : OnLoop(r) /\ LoadCheckpoint(r)
    \/ \E r \in RunIds : \E data \in ShortBatches[runs[r].source_name] :
          OnLoop(r) /\ Fetch(r, data)
    \/ \E r \in RunIds : OnLoop(r) /\ EmptySuccess(r)
    \/ \E r \in RunIds : OnLoop(r) /\ PersistRaw(r)
    \/ \E r \in RunIds : OnLoop(r) /\ Normalize(r)
    \/ \E r \in RunIds : OnLoop(r) /\ Upsert(r)
    \/ \E r \in RunIds : OnLoop(r) /\ AdvanceCheckpoint(r)
    \/ \E r \in RunIds : OnLoop(r) /\ CommitSuccess(r)
    \/ \E r \in RunIds : OnLoop(r) /\ Fail(r)

SpecTriggered == Init /\ [][NextTriggered]_vars

-----------------------------------------------------------------------------
(* Specification of run_all: the runs are those of its loop *)

NextRunAll ==
    \/ RunAllBegin
    \/ RunAllStartRun
    \/ \E r \in RunIds : LoadCheckpoint(r)
    \/ \E r \in RunIds : \E data \in Batches(runs[r].source_name) : Fetch(r, data)
    \/ \E r \in RunIds : EmptySuccess(r)
    \/ \E r \in RunIds : PersistRaw(r)
    \/ \E r \in RunIds : Normalize(r)
    \/ \E r \in RunIds : Upsert(r)
    \/ \E r \in RunIds : AdvanceCheckpoint(r)
    \/ \E r \in RunIds : CommitSuccess(r)
    \/ \E r \in RunIds : Fail(r)
    \/ RunAllCollect
    \/ RunAllReturn

SpecRunAll == Init /\ [][NextRunAll]_vars

-----------------------------------------------------------------------------
(* Specification of run(source) invoked again and again while the provider   *)
(* keeps returning the same listing: ubatch is the source and its listing    *)

InitRerun ==
    /\ InitEtl
    /\ InitResolverIdle
    /\ ubatch \in UNION {{[source |-> src, records |-> b] : b \in Batches(src)}
                           : src \in Sources}
    /\ ucount = 0
    /\ ufirst = {}
    /\ sweep = NoSweep
    /\ InitUtilitiesIdle

NextRerun ==
    \/ StartRunSequential(ubatch.source)
    \/ \E r \in RunIds : LoadCheckpoint(r)
    \/ \E r \in RunIds : Fetch(r, ubatch.records)
    \/ \E r \in RunIds : EmptySuccess(r)
    \/ \E r \in RunIds : PersistRaw(r)
    \/ \E r \in RunIds : Normalize(r)
    \/ \E r \in RunIds : Upsert(r)
    \/ \E r \in RunIds : AdvanceCheckpoint(r)
    \/ \E r \in RunIds : CommitSuccess(r)
    \/ \E r \in RunIds : Fail(r)

SpecRerun == InitRerun /\ [][NextRerun]_vars

-----------------------------------------------------------------------------
(* Specification of the runs of one source on a fixed listing (ubatch) that  *)
(* follow a first successful run on a batch of at most one record            *)

\* the Run row and the tables a successful first run on the batch first leaves
InitIngest ==
    \E src \in Sources : \E first \in ShortBatches[src] : \E data \in Batches(src) :
        /\ ubatch = [source |-> src, records |-> data]
        /\ runs = <<[source_name |-> src, status |-> "success",
                     records_processed |-> Len(normalize(first, src)),
                     error_message |-> NULL, ended_at |-> 1]>>
        /\ sess = <<Finished("returned")>>
        /\ raw = [s \in Sources |-> IF s = src THEN raw_rows(first) ELSE <<>>]
        /\ canon = upsert_normalized({}, normalize(first, src), 1)
        /\ ckpt = [s \in Sources |->
                      IF s = src /\ first # <<>> THEN newest(first) ELSE NoCheckpoint]
        /\ InitResolverIdle
        /\ ucount = 0
        /\ ufirst = {}
        /\ sweep = NoSweep
        /\ InitUtilitiesIdle

SpecIngest == InitIngest /\ [][NextRerun]_vars

-----------------------------------------------------------------------------
(* Specification of the runs of one source whose provider keeps answering    *)
(* with the same entries: ubatch is the source and the response's entries    *)

Responses ==
    [source \in Sources |-> SeqsUpTo(ProviderEntries(source), MaxBatch)]

InitAdapter ==
    /\ InitEtl
    /\ InitResolverIdle
    /\ ubatch \in UNION {{[source |-> src, records |-> data] : data \in Responses[src]}
                           : src \in Sources}
    /\ ucount = 0
    /\ ufirst = {}
    /\ sweep = NoSweep
    /\ InitUtilitiesIdle

NextAdapter ==
    \/ StartRunSequential(ubatch.source)
    \/ \E r \in RunIds : LoadCheckpoint(r)
    \/ \E r \in RunIds : Fetch(r, fetch(ubatch.records))
    \/ \E r \in RunIds : EmptySuccess(r)
    \/ \E r \in RunIds : PersistRaw(r)
    \/ \E r \in RunIds : Normalize(r)
    \/ \E r \in RunIds : Upsert(r)
    \/ \E r \in RunIds : AdvanceCheckpoint(r)
    \/ \E r \in RunIds : CommitSuccess(r)
    \/ \E r \in RunIds : Fail(r)

SpecAdapter == InitAdapter /\ [][NextAdapter]_vars

-----------------------------------------------------------------------------
(* AssetUnificationService: bootstrap *)

MaxListing == 2
MaxMappingCalls == 2

\* the unique constraints of asset_mappings: the primary key asset_uid and the
\* unique columns coingecko_id and coinpaprika_id (NULLs never collide)
UniqueOk(maps) ==
    \A m, n \in maps :
        m # n => /\ m.asset_uid # n.asset_uid
                 /\ m.coingecko_id = NULL \/ m.coingecko_id # n.coingecko_id
                 /\ m.coinpaprika_id = NULL \/ m.coinpaprika_id # n.coinpaprika_id

\* a table without the unique constraints: every statement is accepted
db_execute_unconstrained(maps, result) == result

\* db.execute(stmt) on asset_mappings: result is the table the statement asks
\* for; a statement that breaks a unique constraint raises IntegrityError and
\* leaves the table as it was
db_execute(maps, result) == IF UniqueOk(result) THEN result ELSE maps

\* the entries _fetch_coingecko and _fetch_coinpaprika can return (symbols
\* already upper-cased by them); a ticker can be listed under another symbol at
\* another time
CoinGeckoItems ==
    {[id |-> "bitcoin", symbol |-> "BTC", name |-> "Bitcoin", market_cap |-> 2],
     [id |-> "btc2", symbol |-> "BTC", name |-> "Wrapped Bitcoin", market_cap |-> 1]}

CoinPaprikaItems ==
    {[id |-> "btc-bitcoin", symbol |-> "BTC", name |-> "Bitcoin", market_cap |-> 2],
     [id |-> "btc-bitcoin", symbol |-> "XBT", name |-> "Bitcoin", market_cap |-> 2]}

\* the listings of a provider: no id twice; the empty listing is a failed fetch
Listings(items) ==
    {q \in SeqsUpTo(items, MaxListing) :
        \A i, j \in 1..Len(q) : q[i].id = q[j].id => i = j}

CoinGeckoListings == Listings(CoinGeckoItems)

CoinPaprikaListings == Listings(CoinPaprikaItems)

\* market_cap of an item, as (item.get("market_cap") or 0)
market_cap_or_0(item) == item.market_cap

\* the loop of _build_symbol_lookup replacing the kept entry on a market_cap
\* that is greater or equal
RECURSIVE symbol_lookup_loop_replacing_on_tie(_, _, _)
symbol_lookup_loop_replacing_on_tie(data, i, lookup) ==
    IF i > Len(data)
    THEN lookup
    ELSE LET item == data[i]
             symbol == Upper(item.symbol)
             kept == {e \in lookup : Upper(e.symbol) = symbol}
         IN  symbol_lookup_loop_replacing_on_tie(data, i + 1,
                 IF symbol # "" /\ kept = {}
                 THEN lookup \cup {item}
                 ELSE IF \E e \in kept : market_cap_or_0(item) >= market_cap_or_0(e)
                 THEN (lookup \ kept) \cup {item}
                 ELSE lookup)

build_symbol_lookup_replacing_on_tie(data) ==
    symbol_lookup_loop_replacing_on_tie(data, 1, {})

\* _build_symbol_lookup, lines 196-202: the loop over data from item i on;
\* lookup is the dict so far, as the set of its values (its keys are their
\* upper-cased symbols)
RECURSIVE symbol_lookup_loop(_, _, _)
symbol_lookup_loop(data, i, lookup) ==
    IF i > Len(data)
    THEN lookup
    ELSE LET item == data[i]
             symbol == Upper(item.symbol)
             kept == {e \in lookup : Upper(e.symbol) = symbol}
         IN  symbol_lookup_loop(data, i + 1,
                 IF symbol # "" /\ kept = {}
                 THEN lookup \cup {item}
                 ELSE IF \E e \in kept : market_cap_or_0(item) > market_cap_or_0(e)
                 THEN (lookup \ kept) \cup {item}
                 ELSE lookup)

\* AssetUnificationService._build_symbol_lookup
build_symbol_lookup(data) == symbol_lookup_loop(data, 1, {})

\* _match_assets without its two loops over the unmatched symbols
match_assets_matched_only(cg_by_symbol, cp_by_symbol) ==
    LET both == {p \in cg_by_symbol \X cp_by_symbol : p[1].symbol = p[2].symbol}
    IN  {[asset_uid |-> p[1].id, coingecko_id |-> p[1].id, coinpaprika_id |-> p[2].id,
          symbol |-> p[1].symbol,
          name |-> OrElse(p[1].name, OrElse(p[2].name, p[1].symbol))] : p \in both}

\* AssetUnificationService._match_assets
match_assets(cg_by_symbol, cp_by_symbol) ==
    LET both == {p \in cg_by_symbol \X cp_by_symbol : p[1].symbol = p[2].symbol}
        cgOnly == {a \in cg_by_symbol : \A b \in cp_by_symbol : b.symbol # a.symbol}
        cpOnly == {b \in cp_by_symbol : \A a \in cg_by_symbol : a.symbol # b.symbol}
    IN  {[asset_uid |-> p[1].id, coingecko_id |-> p[1].id, coinpaprika_id |-> p[2].id,
          symbol |-> p[1].symbol,
          name |-> OrElse(p[1].name, OrElse(p[2].name, p[1].symbol))] : p \in both}
        \cup {[asset_uid |-> a.id, coingecko_id |-> a.id, coinpaprika_id |-> NULL,
               symbol |-> a.symbol, name |-> OrElse(a.name, a.symbol)] : a \in cgOnly}
        \cup {[asset_uid |-> b.id, coingecko_id |-> NULL, coinpaprika_id |-> b.id,
               symbol |-> b.symbol, name |-> OrElse(b.name, b.symbol)] : b \in cpOnly}

\* AssetUnificationService._persist_mappings: INSERT ... ON CONFLICT (asset_uid)
\* DO UPDATE SET coingecko_id, coinpaprika_id, symbol, name
persist_mappings(maps, matches) ==
    IF matches = {} THEN maps
    ELSE db_execute(maps,
            {m \in maps : \A x \in matches : x.asset_uid # m.asset_uid} \cup matches)

\* AssetUnificationService._seed_fallback_mappings: INSERT ... ON CONFLICT
\* (asset_uid) DO NOTHING
seed_fallback_mappings(maps) ==
    db_execute(maps,
        maps \cup {w \in WELL_KNOWN_ASSETS : \A m \in maps : m.asset_uid # w.asset_uid})

\* AssetUnificationService._bootstrap on the table maps.  When _persist_mappings
\* raises, the handler's _seed_fallback_mappings runs in the aborted transaction
\* and raises as well: the table is left as it was.
bootstrap(maps, coingecko_data, coinpaprika_data) ==
    IF coingecko_data = <<>> \/ coinpaprika_data = <<>>
    THEN seed_fallback_mappings(maps)
    ELSE persist_mappings(maps, match_assets(build_symbol_lookup(coingecko_data),
                                             build_symbol_lookup(coinpaprika_data)))

\* the table the statement of _bootstrap asks for, constraints aside
bootstrap_statement(maps, coingecko_data, coinpaprika_data) ==
    IF coingecko_data = <<>> \/ coinpaprika_data = <<>>
    THEN maps \cup {w \in WELL_KNOWN_ASSETS : \A m \in maps : m.asset_uid # w.asset_uid}
    ELSE LET matches == match_assets(build_symbol_lookup(coingecko_data),
                                     build_symbol_lookup(coinpaprika_data))
         IN  {m \in maps : \A x \in matches : x.asset_uid # m.asset_uid} \cup matches

\* the matches list _bootstrap computes; none when a fetch failed
bootstrap_matches(coingecko_data, coinpaprika_data) ==
    IF coingecko_data = <<>> \/ coinpaprika_data = <<>>
    THEN {}
    ELSE match_assets(build_symbol_lookup(coingecko_data),
                      build_symbol_lookup(coinpaprika_data))

\* AssetUnificationService.create: a new service (empty cache) runs _bootstrap;
\* last keeps what it fetched and matched
Bootstrap(coingecko_data, coinpaprika_data) ==
    /\ mappings' = bootstrap(mappings, coingecko_data, coinpaprika_data)
    /\ cache' = {}
    /\ last' = [source |-> "bootstrap", symbol |-> NULL, name |-> NULL, id |-> NULL,
                asset_uid |-> NULL,
                strategy |->
                      IF ~UniqueOk(bootstrap_statement(mappings, coingecko_data,
                                                       coinpaprika_data))
                      THEN "integrity_error"
                      ELSE IF coingecko_data = <<>> \/ coinpaprika_data = <<>>
                      THEN "seed_fallback" ELSE "persist_mappings",
                coingecko_data |-> coingecko_data,
                coinpaprika_data |-> coinpaprika_data,
                matches |-> bootstrap_matches(coingecko_data, coinpaprika_data)]
    /\ UNCHANGED <<resolved, ncalls, etlVars, harnessVars>>

\* resolve calls, cache drops and bootstraps on one mapping table
NextMappings ==
    \/ \E source \in ResolverSources, symbol \in ResolverSymbols,
          name \in ResolverNames :
          \E id \in PayloadIds(source) :
              ncalls < MaxMappingCalls /\ Resolve(source, symbol, name, id)
    \/ ClearCache
    \/ \E coingecko_data \in CoinGeckoListings,
          coinpaprika_data \in CoinPaprikaListings :
          Bootstrap(coingecko_data, coinpaprika_data)

SpecMappings == InitResolve /\ [][NextMappings]_vars

\* CoinGecko data in which two entries of one symbol have the same market cap
CoinGeckoItemsWithTie ==
    CoinGeckoItems
        \cup {[id |-> "btc3", symbol |-> "BTC", name |-> "Bitcoin BEP2", market_cap |-> 1]}

CoinGeckoTieListings == Listings(CoinGeckoItemsWithTie)

\* the bootstraps of successive services on one mapping table
NextBootstrap ==
    \E coingecko_data \in CoinGeckoTieListings,
       coinpaprika_data \in CoinPaprikaListings :
       Bootstrap(coingecko_data, coinpaprika_data)

SpecBootstrap == InitResolve /\ [][NextBootstrap]_vars

-----------------------------------------------------------------------------
(* Properties of the ETL runs (Spec) *)

TablesUnchanged == ckpt' = ckpt /\ raw' = raw /\ canon' = canon

\* run r is marked success by this step
BecomesSuccess(r) == runs[r].status = "running" /\ runs'[r].status = "success"

\* run r ends by an exception in this step
Raises(r) == InProgress(r) /\ sess'[r].outcome = "raised"

\* the steps of the pipeline after the raw insert of step 3
LaterSteps == {"raw_persisted", "normalized", "upserted", "advanced"}

\* C1: over runs executed one at a time, no step lowers a source's committed
\* checkpoint (a checkpoint row, once there, never goes away), and a run whose
\* filtered batch is empty ends without changing any checkpoint.
CheckpointNeverDecreases ==
    [][/\ \A s \in Sources : ckpt'[s] >= ckpt[s]
       /\ \A r \in RunIds :
            (sess[r].pc = "fetched" /\ sess[r].raw_records = <<>>
                /\ sess'[r].pc = "done") => ckpt' = ckpt]_vars

\* Two runs of one source have both advanced its checkpoint, from none to 1 to 2.
WitnessCheckpointAdvancedTwice ==
    /\ Len(runs) = 2
    /\ runs[1].source_name = runs[2].source_name
    /\ \A r \in {1, 2} : runs[r].status = "success" /\ runs[r].records_processed > 0
    /\ ckpt[runs[1].source_name] = 2
    /\ \E i \in 1..Len(raw[runs[1].source_name]) :
          raw[runs[1].source_name][i].source_updated_at = 1

\* C3: a Run row is created in status running, its status only ever changes
\* from running to success or failure, and a row in success or failure keeps
\* its status; no row is removed.
RunStatusChangesOnce ==
    [][/\ Len(runs') >= Len(runs)
       /\ \A r \in 1..Len(runs') :
            IF r > Len(runs)
            THEN runs'[r].status = "running"
            ELSE /\ runs[r].status # "running" => runs'[r].status = runs[r].status
                 /\ runs'[r].status \in {"running", "success", "failure"}]_vars

\* One run has ended in success and another in failure.
WitnessBothTerminalStatuses ==
    \E r1, r2 \in RunIds :
        /\ runs[r1].status = "success" /\ runs[r1].records_processed > 0
        /\ runs[r2].status = "failure"

\* C4: when persisting raw rows, upserting or advancing the checkpoint (or any
\* other step after the fetch of a non-empty batch) raises, the run is marked
\* failure with a non-null error_message, the exception reaches the caller, and
\* the step commits nothing but that Run row; the committed raw, CanonicalAsset
\* and checkpoint tables change only in a step that marks a run success.
FailureCommitsOnlyTheRunRow ==
    [][/\ \A r \in RunIds :
            (Raises(r) /\ sess[r].raw_records # <<>>) =>
                /\ runs'[r].status = "failure"
                /\ runs'[r].error_message # NULL
                /\ runs'[r].ended_at # 0
                /\ TablesUnchanged
                /\ \A q \in RunIds : q # r => runs'[q] = runs[q]
       /\ ~TablesUnchanged => \E r \in RunIds : BecomesSuccess(r)]_vars

\* A run failed in the upsert after an earlier run had committed data: the
\* tables still hold exactly the earlier run's rows.
WitnessUpsertFailedAfterCommit ==
    \E r1, r2 \in RunIds :
        /\ r1 < r2
        /\ runs[r1].status = "success" /\ runs[r1].records_processed > 0
        /\ runs[r2].source_name = runs[r1].source_name
        /\ runs[r2].status = "failure"
        /\ runs[r2].error_message = "upsert failed"
        /\ sess[r2].outcome = "raised"
        /\ ckpt[runs[r1].source_name] = 1

\* C5 as stated: when a step after the raw insert fails, the run's fresh
\* records are in the committed raw table of the source.
RawRowsSurviveLaterFailure ==
    [][\A r \in RunIds :
          (Raises(r) /\ sess[r].pc \in LaterSteps) =>
              raw'[runs[r].source_name] =
                  raw[runs[r].source_name] \o raw_rows(sess[r].raw_records)]_vars

\* C5 as amended: the raw rows of a batch are committed with the run and only
\* with it.  A failure in a later step leaves the committed raw table without
\* them, and the raw table of a source changes only in the step that marks a
\* run of that source success, by appending that run's fresh records in order.
RawRowsCommittedOnlyWithRun ==
    [][/\ \A r \in RunIds :
            (Raises(r) /\ sess[r].pc \in LaterSteps) => raw' = raw
       /\ \A s \in Sources :
            raw'[s] # raw[s] =>
                \E r \in RunIds :
                    /\ runs[r].source_name = s
                    /\ BecomesSuccess(r)
                    /\ raw'[s] = raw[s] \o raw_rows(sess[r].raw_records)]_vars

\* A run went past the raw insert and failed later; the source's raw table is
\* empty afterwards.
WitnessRawRolledBack ==
    \E r \in RunIds :
        /\ runs[r].status = "failure"
        /\ runs[r].error_message \in
              {"normalize failed", "upsert failed", "advance_checkpoint failed"}
        /\ raw[runs[r].source_name] = <<>>
        /\ \A q \in RunIds : ~InProgress(q)

\* C6: in every committed state a source's checkpoint T is the timestamp of a
\* committed raw row of that source and no committed raw row is newer; a
\* checkpoint changes only in the step that marks a run of that source success,
\* and that step commits the run's raw rows, its upserts and the checkpoint
\* newest(batch) together; a step marking a run with a non-empty batch success
\* commits all three.
CheckpointCommittedWithBatch ==
    /\ [](\A s \in Sources :
            /\ ckpt[s] # NoCheckpoint =>
                  \E i \in 1..Len(raw[s]) : raw[s][i].source_updated_at = ckpt[s]
            /\ \A i \in 1..Len(raw[s]) : raw[s][i].source_updated_at <= ckpt[s])
    /\ [][/\ \A s \in Sources :
               ckpt'[s] # ckpt[s] =>
                   \E r \in RunIds : runs[r].source_name = s /\ BecomesSuccess(r)
          /\ \A r \in RunIds :
               (BecomesSuccess(r) /\ sess[r].raw_records # <<>>) =>
                   LET s == runs[r].source_name
                       batch == sess[r].raw_records
                   IN  /\ ckpt'[s] = newest(batch)
                       /\ raw'[s] = raw[s] \o raw_rows(batch)
                       /\ canon' = upsert_normalized(canon, normalize(batch, s), Now)
                       /\ runs'[r].records_processed = Len(normalize(batch, s))]_vars

\* A run has committed a batch of two records: checkpoint 2, both raw rows and
\* a CanonicalAsset row of the batch.
WitnessBatchAndCheckpointCommitted ==
    \E r \in RunIds :
        LET s == runs[r].source_name
        IN  /\ runs[r].status = "success" /\ runs[r].records_processed > 0
            /\ ckpt[s] = 2
            /\ Len(raw[s]) = 2
            /\ \E row \in canon : row.source = s /\ row.source_updated_at = 2

\* C7: every normalized row of a run carries the asset_uid the Entity Resolver
\* returns for the record it was built from (source, symbol, name, payload id).
NormalizedUidIsResolved ==
    \A r \in RunIds :
        sess[r].pc \in {"normalized", "upserted", "advanced"} =>
            \A i \in 1..Len(sess[r].normalized) :
                \E j \in 1..Len(sess[r].raw_records) :
                    LET rec == sess[r].raw_records[j]
                        src == runs[r].source_name
                        row == sess[r].normalized[i]
                    IN  /\ normalized_payload(rec, src) = row
                        /\ \E out \in resolve(mappings, cache, src, rec.symbol,
                                              row.name, rec.id) :
                              out.asset_uid = row.asset_uid

-----------------------------------------------------------------------------
(* Property of normalize + upsert (SpecUpsert) *)

WithoutIngestedAt(table) ==
    {[asset_uid |-> t.asset_uid, symbol |-> t.symbol, name |-> t.name,
      price_usd |-> t.price_usd, source |-> t.source,
      source_updated_at |-> t.source_updated_at] : t \in table}

\* C2: after a second (or later) application of normalize + upsert to the same
\* fetched batch the table holds the rows it held after the first one, ingested_at
\* excepted: the same number of rows, and no asset_uid twice.
SecondApplicationChangesNothing ==
    ucount >= 2 =>
        /\ WithoutIngestedAt(canon) = WithoutIngestedAt(ufirst)
        /\ Cardinality(canon) = Cardinality(ufirst)
        /\ \A a, b \in canon : a.asset_uid = b.asset_uid => a = b

\* A batch of two records was applied twice to a table of two rows: one row was
\* written by both applications, the other by none.
WitnessBatchAppliedTwice ==
    /\ ucount = 2
    /\ Len(ubatch.records) = 2
    /\ Cardinality(canon) = 2
    /\ \E t \in canon : t.ingested_at = 2
    /\ \E t \in canon : t.ingested_at = 0

-----------------------------------------------------------------------------
(* Properties of the resolver (SpecResolve) *)

\* C8: any two resolve calls for the same source and the same provider id have
\* returned the same asset_uid, whether or not the cache was dropped in between.
ResolutionIsStable ==
    \A a, b \in resolved :
        (a.source = b.source /\ a.id = b.id /\ a.id # NULL) =>
            a.asset_uid = b.asset_uid

\* C9: no step removes a mapping row or changes a provider id of a row that is
\* not null: every row is still there afterwards with its non-null ids.
MappingIdsNeverOverwritten ==
    [][\A m \in mappings :
          \E n \in mappings' :
              /\ n.asset_uid = m.asset_uid
              /\ m.coingecko_id # NULL => n.coingecko_id = m.coingecko_id
              /\ m.coinpaprika_id # NULL => n.coinpaprika_id = m.coinpaprika_id]_vars

\* C10: a resolve call for a record whose provider id is in no mapping, and
\* whose symbol has exactly one mapping, carrying only the other provider's id,
\* returns that mapping's asset_uid and changes the table in nothing but that
\* mapping's missing provider id, which becomes the record's id.
EnrichmentFillsMissingId ==
    [][ncalls' = ncalls + 1 =>
          LET c == last'
              cands == {m \in mappings : m.symbol = Upper(c.symbol)}
              Own(m) == IF c.source = "coingecko" THEN m.coingecko_id
                        ELSE m.coinpaprika_id
              Other(m) == IF c.source = "coingecko" THEN m.coinpaprika_id
                          ELSE m.coingecko_id
              Enriched(m) == IF c.source = "coingecko"
                             THEN [m EXCEPT !.coingecko_id = c.id]
                             ELSE [m EXCEPT !.coinpaprika_id = c.id]
          IN  \A m \in cands :
                  (/\ c.source \in {"coingecko", "coinpaprika"}
                   /\ c.id # NULL
                   /\ \A n \in mappings :
                          n.coingecko_id # c.id /\ n.coinpaprika_id # c.id
                   /\ cands = {m}
                   /\ Own(m) = NULL
                   /\ Other(m) # NULL)
                  => /\ c.asset_uid = m.asset_uid
                     /\ mappings' = (mappings \ {m}) \cup {Enriched(m)}]_vars

-----------------------------------------------------------------------------
(* Properties of the mapping table (SpecMappings) *)

\* C11: after any sequence of bootstraps, fallback seeds and resolve calls, no
\* two AssetMapping rows share an asset_uid, a non-null coingecko_id or a
\* non-null coinpaprika_id.
MappingKeysAreUnique ==
    /\ \A u \in {m.asset_uid : m \in mappings} :
          Cardinality({m \in mappings : m.asset_uid = u}) = 1
    /\ \A g \in {m.coingecko_id : m \in mappings} \ {NULL} :
          Cardinality({m \in mappings : m.coingecko_id = g}) = 1
    /\ \A p \in {m.coinpaprika_id : m \in mappings} \ {NULL} :
          Cardinality({m \in mappings : m.coinpaprika_id = p}) = 1

\* a statement of a bootstrap has been refused by a unique constraint, after
\* resolve calls, on a table of several rows
WitnessBootstrapRefused ==
    /\ last.strategy = "integrity_error"
    /\ ncalls > 0
    /\ Cardinality(mappings) >= 2

-----------------------------------------------------------------------------
(* Properties of normalize + upsert, continued (SpecUpsert) *)

\* the positions of the batch whose record normalizes to asset_uid u
PositionsOf(u) ==
    {i \in 1..Len(ubatch.records) :
        /\ OrElse(ubatch.records[i].symbol, "") # ""
        /\ Lower(Upper(ubatch.records[i].symbol)) = u}

\* C12: once the batch has been applied, the CanonicalAsset row of every
\* asset_uid of the batch is the record of that asset_uid with the greatest
\* source_updated_at, the first such record in batch order on a tie.
UpsertedRowIsFreshestFirst ==
    ucount >= 1 =>
        \A u \in {Lower(Upper(ubatch.records[i].symbol)) :
                    i \in {k \in 1..Len(ubatch.records) :
                             OrElse(ubatch.records[k].symbol, "") # ""}} :
            \E i \in PositionsOf(u) :
                /\ \A j \in PositionsOf(u) :
                      \/ ubatch.records[j].source_updated_at
                            < ubatch.records[i].source_updated_at
                      \/ /\ ubatch.records[j].source_updated_at
                            = ubatch.records[i].source_updated_at
                         /\ j >= i
                /\ \E row \in canon :
                      /\ row.asset_uid = u
                      /\ row.symbol = Upper(ubatch.records[i].symbol)
                      /\ row.name = OrElse(ubatch.records[i].name, row.symbol)
                      /\ row.price_usd = ubatch.records[i].price_usd
                      /\ row.source = ubatch.source
                      /\ row.source_updated_at = ubatch.records[i].source_updated_at
                /\ Cardinality({row \in canon : row.asset_uid = u}) = 1

\* a batch with two records of one asset_uid, the older one last, has been applied
WitnessOlderRecordLast ==
    /\ ucount >= 1
    /\ \E i, j \in 1..Len(ubatch.records) :
          /\ i < j
          /\ ubatch.records[i].symbol = ubatch.records[j].symbol
          /\ ubatch.records[i].symbol # ""
          /\ ubatch.records[j].source_updated_at < ubatch.records[i].source_updated_at

-----------------------------------------------------------------------------
(* Properties of the ETL runs, continued (Spec) *)

\* C13: no step overwrites a CanonicalAsset row with data that is not strictly
\* fresher: a row that changes gets a strictly greater source_updated_at, so the
\* stored source_updated_at of an asset_uid never decreases.
CanonicalRowOverwrittenOnlyByFresher ==
    [][\A old \in canon : \A new \in canon' :
          (new.asset_uid = old.asset_uid /\ new # old) =>
              new.source_updated_at > old.source_updated_at]_vars

-----------------------------------------------------------------------------
(* Properties of the runs started by the trigger routes (SpecTriggered) *)

\* C14: at no time are two Run rows of one source both in status running.
SingleFlightPerSource ==
    \A r1, r2 \in RunIds :
        (r1 # r2 /\ runs[r1].source_name = runs[r2].source_name) =>
            ~(runs[r1].status = "running" /\ runs[r2].status = "running")

\* C16 as stated: runs of different sources never write the same row; for
\* CanonicalAsset, a row that is overwritten is overwritten by a run of the
\* source that wrote it.
CanonicalRowsOwnedByOneSource ==
    [][\A old \in canon : \A new \in canon' :
          (new.asset_uid = old.asset_uid /\ new # old) =>
              new.source = old.source]_vars

\* C16, amended: a step changes the raw table or the checkpoint row of a source
\* only when it is the commit of a run of that source, and every CanonicalAsset
\* row a step writes carries the source of the run that commits; the
\* CanonicalAsset rows themselves are shared between the sources.
RunWritesOnlyItsSourceTables ==
    [][\A s \in Sources :
          /\ (raw'[s] # raw[s] \/ ckpt'[s] # ckpt[s]) =>
                \E r \in RunIds :
                    /\ runs[r].source_name = s
                    /\ runs[r].status = "running"
                    /\ runs'[r].status = "success"
          /\ \A new \in canon' \ canon :
                new.source = s =>
                    \E r \in RunIds :
                        /\ runs[r].source_name = s
                        /\ runs[r].status = "running"
                        /\ runs'[r].status = "success"]_vars

\* the coingecko run started first and is about to commit a row that the
\* coinpaprika run, started after it, has committed meanwhile
WitnessInterleavedRunsSameRow ==
    /\ Len(runs) = 2
    /\ runs[1].source_name = "coingecko"
    /\ runs[2].source_name = "coinpaprika"
    /\ runs[2].status = "success"
    /\ sess[1].pc = "advanced"
    /\ \E row \in canon :
          /\ row.source = "coinpaprika"
          /\ \E i \in 1..Len(sess[1].tx.canon) :
                sess[1].tx.canon[i].asset_uid = row.asset_uid

-----------------------------------------------------------------------------
(* Properties of the ETL runs, continued (Spec) *)

\* C17: a run that is waiting for its fetch either gets a batch or, when the
\* fetch raises, ends at once: its Run row is then marked failure with the
\* error message, the exception reaches the caller, and no raw row, no
\* CanonicalAsset row and no checkpoint is written, for any source.
FetchFailureRecordedTablesKept ==
    [][\A r \in RunIds :
          (sess[r].pc = "loaded" /\ sess'[r] # sess[r]) =>
              \/ sess'[r].pc = "fetched" /\ runs' = runs /\ TablesUnchanged
              \/ /\ sess'[r].pc = "done"
                 /\ sess'[r].outcome = "raised"
                 /\ runs'[r].status = "failure"
                 /\ runs'[r].error_message = "fetch failed"
                 /\ TablesUnchanged
                 /\ \A q \in RunIds : q # r => runs'[q] = runs[q]]_vars

\* the fetch of a source failed in a run that followed a successful run of that
\* source: the checkpoint and the rows of the earlier run are still there
WitnessFetchFailedCheckpointKept ==
    \E r1, r2 \in RunIds :
        /\ r1 < r2
        /\ runs[r1].source_name = runs[r2].source_name
        /\ runs[r1].status = "success" /\ runs[r1].records_processed > 0
        /\ runs[r2].status = "failure"
        /\ runs[r2].error_message = "fetch failed"
        /\ ckpt[runs[r2].source_name] # NoCheckpoint
        /\ raw[runs[r2].source_name] # <<>>
        /\ canon # {}

-----------------------------------------------------------------------------
(* Properties of run_all (SpecRunAll) *)

\* C18: run_all runs its sources in order, one at a time; its results hold one
\* entry per source run so far, in that order; the entry of a run that raised
\* is {success: False, error}, that of a run that returned reports success; and
\* when run_all has ended there is an entry for every configured source.
RunAllReportsEverySource ==
    /\ Cardinality({r \in RunIds : InProgress(r)}) <= 1
    /\ Len(sweep.results) <= Len(RunAllSources)
    /\ \A k \in 1..Len(sweep.results) :
          LET entry == sweep.results[k]
              r == sweep.first_run + k
          IN  /\ entry.source = RunAllSources[k]
              /\ r \in RunIds
              /\ runs[r].source_name = entry.source
              /\ runs[r].status \in {"success", "failure"}
              /\ runs[r].status = "failure" =>
                    /\ entry.success = FALSE
                    /\ entry.error # NULL
                    /\ entry.error = runs[r].error_message
              /\ runs[r].status = "success" =>
                    /\ entry.success = TRUE
                    /\ entry.records_processed = runs[r].records_processed
    /\ sweep.pc = "ended" => Len(sweep.results) = Len(RunAllSources)

\* run_all has ended: the run of its first source raised and the run of its
\* second source processed records all the same
WitnessRunAllContinuedAfterFailure ==
    /\ sweep.pc = "ended"
    /\ sweep.results[1].success = FALSE
    /\ sweep.results[2].success = TRUE
    /\ sweep.results[2].records_processed > 0

-----------------------------------------------------------------------------
(* Properties of a run whose filtered batch is empty (Spec) *)

\* C19: a fetch that returns only records dated at or before the checkpoint T
\* of the run leaves an empty filtered batch; a run whose filtered batch is
\* empty writes no raw row, no CanonicalAsset row and no checkpoint (it stays
\* T), and when it returns its Run row is success with records_processed = 0.
EmptyBatchSucceedsWithoutWrites ==
    [][\A r \in RunIds :
          LET source == runs[r].source_name
              T == sess[r].last_checkpoint
          IN  /\ (/\ sess[r].pc = "loaded"
                  /\ sess'[r].pc = "fetched"
                  /\ T # NoCheckpoint
                  /\ sess'[r].raw_records # <<>>)
                 => \A data \in Batches(source) :
                       (\A i \in 1..Len(data) : data[i].source_updated_at <= T)
                       => ~Fetch(r, data)
              /\ (/\ sess[r].pc = "fetched"
                  /\ sess[r].raw_records = <<>>
                  /\ sess'[r] # sess[r])
                 => /\ TablesUnchanged
                    /\ ckpt'[source] = T
                    /\ sess'[r].pc = "done"
                    /\ sess'[r].outcome = "returned" =>
                          /\ runs'[r].status = "success"
                          /\ runs'[r].records_processed = 0]_vars

\* the first CoinGecko run stored one record dated 2 and set the checkpoint to
\* 2; the second one ran against that checkpoint and ended in success with
\* nothing processed and nothing written
WitnessEmptyBatchAtCheckpoint ==
    /\ Len(runs) = 2
    /\ \A r \in {1, 2} : runs[r].source_name = "coingecko" /\ runs[r].status = "success"
    /\ runs[1].records_processed = 1
    /\ runs[2].records_processed = 0
    /\ Len(raw["coingecko"]) = 1
    /\ ckpt["coingecko"] = 2

-----------------------------------------------------------------------------
(* Properties of a repeated run on unchanged upstream data (SpecRerun) *)

\* C20: once a run of the source has succeeded, later runs of it on the same
\* upstream data change neither the raw table nor CanonicalAsset nor the
\* checkpoint; each of them that returns is a success with
\* records_processed = 0, and the only row it adds or changes is its own Run row.
RerunOnUnchangedDataChangesNothing ==
    [][(\E q \in RunIds : runs[q].status = "success")
         => /\ TablesUnchanged
            /\ \A q \in RunIds : runs[q].status # "running" => runs'[q] = runs[q]
            /\ \A r \in RunIds :
                  BecomesSuccess(r) => runs'[r].records_processed = 0]_vars

\* the first run stored a non-empty listing, the second run fetched the same
\* listing and ended in success with nothing processed and nothing stored
WitnessRerunProcessedNothing ==
    /\ Len(runs) = 2
    /\ ubatch.records # <<>>
    /\ runs[1].status = "success" /\ runs[1].records_processed >= 1
    /\ runs[2].status = "success" /\ runs[2].records_processed = 0
    /\ Len(raw[ubatch.source]) = Len(ubatch.records)
    /\ ckpt[ubatch.source] = newest(ubatch.records)

\* C21: whatever number of runs of the source failed before, once a run on the
\* same upstream data has succeeded the raw table holds every fetched record
\* exactly once, CanonicalAsset holds the rows one successful run on the empty
\* tables upserts (ingested_at aside) and the checkpoint is that run's; before
\* the first success the failed attempts have left the tables empty.
RetryEndsAsFirstSuccess ==
    LET s == ubatch.source
        D == ubatch.records
    IN  IF \E q \in RunIds : runs[q].status = "success"
        THEN /\ raw[s] = raw_rows(D)
             /\ WithoutIngestedAt(canon) =
                    WithoutIngestedAt(upsert_normalized({}, normalize(D, s), 0))
             /\ ckpt[s] = IF D = <<>> THEN NoCheckpoint ELSE newest(D)
        ELSE /\ raw[s] = <<>>
             /\ canon = {}
             /\ ckpt[s] = NoCheckpoint

\* the first run failed at its last commit, with the whole batch pending; the
\* retry on the same listing succeeded and stored the batch once
WitnessRetrySucceededAfterFailure ==
    /\ Len(runs) = 2
    /\ ubatch.records # <<>>
    /\ runs[1].status = "failure" /\ runs[1].error_message = "commit failed"
    /\ runs[2].status = "success" /\ runs[2].records_processed >= 1
    /\ Len(raw[ubatch.source]) = Len(ubatch.records)

-----------------------------------------------------------------------------
(* Properties of the resolver's cache *)

\* C22: a resolve call answered from the in-memory cache returns an asset_uid
\* that the same call returns when the cache is empty and the mapping table
\* alone decides.
CacheAnswerIsTableAnswer ==
    last.strategy = "cache" =>
        last.asset_uid \in
            {out.asset_uid : out \in resolve(mappings, {}, last.source, last.symbol,
                                             last.name, last.id)}

-----------------------------------------------------------------------------
(* Properties of bootstrap (SpecMappings) *)

SymbolsOf(lookup) == {a.symbol : a \in lookup}

\* C23: the matches of a bootstrap whose two fetches succeeded hold exactly one
\* mapping per symbol of either lookup table and nothing else: for a symbol of
\* both tables it carries both provider ids and has the CoinGecko id as
\* asset_uid (the ranks play no part), for a symbol of one table it carries
\* that provider's id only; and when the statement is accepted the table holds
\* these mappings.
BootstrapMatchesOnePerSymbol ==
    (/\ last.source = "bootstrap"
     /\ last.coingecko_data # <<>>
     /\ last.coinpaprika_data # <<>>) =>
        LET cg == build_symbol_lookup(last.coingecko_data)
            cp == build_symbol_lookup(last.coinpaprika_data)
            M == last.matches
        IN  /\ \A m \in M : m.symbol \in SymbolsOf(cg) \cup SymbolsOf(cp)
            /\ \A sym \in SymbolsOf(cg) \cup SymbolsOf(cp) :
                  LET ms == {m \in M : m.symbol = sym}
                      a == {x \in cg : x.symbol = sym}
                      b == {x \in cp : x.symbol = sym}
                  IN  /\ Cardinality(ms) = 1
                      /\ \A m \in ms :
                            /\ m.coingecko_id \in
                                  IF a = {} THEN {NULL} ELSE {x.id : x \in a}
                            /\ m.coinpaprika_id \in
                                  IF b = {} THEN {NULL} ELSE {x.id : x \in b}
                            /\ m.asset_uid =
                                  IF a # {} THEN m.coingecko_id ELSE m.coinpaprika_id
            /\ last.strategy = "persist_mappings" => M \subseteq mappings

\* a bootstrap has matched a symbol of both providers, and another bootstrap
\* would be witnessed by two single-provider mappings; this one is the first
WitnessBootstrapMatchedBothProviders ==
    /\ last.source = "bootstrap"
    /\ last.strategy = "persist_mappings"
    /\ Len(last.coingecko_data) = 2
    /\ \E m \in last.matches :
          /\ m.coingecko_id = "bitcoin"
          /\ m.coinpaprika_id = "btc-bitcoin"
          /\ m \in mappings

\* C24: a bootstrap run after any earlier bootstraps and resolve calls is
\* accepted by the table's constraints, and when its two fetches succeeded the
\* table then holds every mapping it matched, with that bootstrap's provider
\* ids, symbol and name.
BootstrapRerunAccepted ==
    last.source = "bootstrap" =>
        /\ last.strategy # "integrity_error"
        /\ last.matches \subseteq mappings

\* C25: a bootstrap in which a provider fetch failed seeds the fallback set and
\* returns (it does not raise): afterwards the table holds a mapping for every
\* asset_uid of the fallback set.
FetchFailureSeedsFallback ==
    (/\ last.source = "bootstrap"
     /\ last.coingecko_data = <<>> \/ last.coinpaprika_data = <<>>) =>
        /\ last.strategy = "seed_fallback"
        /\ \A w \in WELL_KNOWN_ASSETS : \E m \in mappings : m.asset_uid = w.asset_uid

-----------------------------------------------------------------------------
(* Properties of the ingestion step (SpecIngest) *)

\* out holds, in the order of data, exactly the records of data dated strictly
\* after the checkpoint T, all of them when there is no checkpoint
IsFreshPartOf(out, data, T) ==
    /\ \A i \in 1..Len(out) :
          /\ \E k \in 1..Len(data) : data[k] = out[i]
          /\ T = NoCheckpoint \/ out[i].source_updated_at > T
    /\ \A k \in 1..Len(data) :
          (T = NoCheckpoint \/ data[k].source_updated_at > T)
              => \E i \in 1..Len(out) : out[i] = data[k]
    /\ \A i, j \in 1..Len(out) :
          i < j => \E k, l \in 1..Len(data) :
                      k < l /\ data[k] = out[i] /\ data[l] = out[j]

\* C26: what the fetch step of a run hands on is exactly the records of the
\* batch its adapter fetched that are dated strictly after the checkpoint the
\* run loaded, in fetch order, and the whole batch when the source has no
\* checkpoint.
RunnerReturnsFreshRecordsInOrder ==
    [][\A r \in RunIds :
          (sess[r].pc = "loaded" /\ sess'[r].pc = "fetched") =>
              IsFreshPartOf(sess'[r].raw_records, ubatch.records,
                            sess[r].last_checkpoint)]_vars

\* a run that loaded the checkpoint 1 has fetched a batch of which the filter
\* dropped a part and handed on the rest, dated 2
WitnessFetchFilteredByCheckpoint ==
    \E r \in RunIds :
        /\ sess[r].pc = "fetched"
        /\ sess[r].last_checkpoint = 1
        /\ sess[r].raw_records # <<>>
        /\ Len(sess[r].raw_records) < Len(ubatch.records)
        /\ \A i \in 1..Len(sess[r].raw_records) :
              sess[r].raw_records[i].source_updated_at = 2

-----------------------------------------------------------------------------
(* Properties of the records without a symbol (Spec) *)

NoSymbol(rec) == rec.symbol = NULL \/ rec.symbol = ""

\* C27: the normalized output of a run holds no row made from a record without
\* a symbol, CanonicalAsset never holds a row without a symbol, and when a run
\* succeeds every fresh record without a symbol is a row of the source's raw
\* table.
UnnamedRecordDroppedButArchived ==
    [][/\ \A r \in RunIds :
            /\ (sess[r].pc = "raw_persisted" /\ sess'[r].pc = "normalized") =>
                  /\ \A i \in 1..Len(sess'[r].normalized) :
                        /\ sess'[r].normalized[i].symbol # ""
                        /\ sess'[r].normalized[i].asset_uid # ""
                  /\ Len(sess'[r].normalized) <=
                        Cardinality({i \in 1..Len(sess[r].raw_records) :
                                        ~NoSymbol(sess[r].raw_records[i])})
            /\ BecomesSuccess(r) =>
                  \A i \in 1..Len(sess[r].raw_records) :
                      NoSymbol(sess[r].raw_records[i]) =>
                          \E k \in 1..Len(raw'[runs[r].source_name]) :
                              raw'[runs[r].source_name][k].payload =
                                  sess[r].raw_records[i]
       /\ \A t \in canon' : t.symbol # "" /\ t.asset_uid # ""]_vars

\* a run whose only fresh record had no symbol has succeeded: nothing was
\* normalized, CanonicalAsset is empty and the record is in the raw table
WitnessUnnamedRecordArchived ==
    /\ Len(runs) = 1
    /\ runs[1].status = "success"
    /\ runs[1].records_processed = 0
    /\ canon = {}
    /\ Len(raw[runs[1].source_name]) = 1
    /\ NoSymbol(raw[runs[1].source_name][1].payload)

-----------------------------------------------------------------------------
(* Properties of the tables over the runs (Spec) *)

\* C28: no step updates or deletes a committed raw row or deletes a
\* CanonicalAsset row: after every step the raw table of each source starts
\* with the rows it held, payload and source_updated_at unchanged, and every
\* asset_uid of CanonicalAsset is still there.
RawRowsAndCanonicalUidsOnlyGrow ==
    [][/\ \A s \in Sources :
            /\ Len(raw'[s]) >= Len(raw[s])
            /\ \A k \in 1..Len(raw[s]) : raw'[s][k] = raw[s][k]
       /\ \A t \in canon : \E u \in canon' : u.asset_uid = t.asset_uid]_vars

\* a CoinGecko run stored the rows btc and eth, then a CoinPaprika run
\* overwrote row btc: row eth is still there and both raw tables hold rows
WitnessSecondRunKeptOtherRows ==
    /\ Len(runs) = 2
    /\ runs[1].source_name = "coingecko" /\ runs[1].status = "success"
    /\ runs[2].source_name = "coinpaprika" /\ runs[2].status = "success"
    /\ raw["coingecko"] # <<>> /\ raw["coinpaprika"] # <<>>
    /\ \E t \in canon : t.asset_uid = "btc" /\ t.source = "coinpaprika"
    /\ \E t \in canon : t.asset_uid = "eth" /\ t.source = "coingecko"

-----------------------------------------------------------------------------
(* Properties of the adapters' fetch (SpecAdapter) *)

\* C29: every record the fetch step of a run hands on carries a timestamp;
\* on a source without checkpoint the records are, in order, the entries of the
\* response whose last_updated is a timestamp, each with that timestamp: an
\* entry whose last_updated is missing, empty or no timestamp is left out, gets
\* no timestamp of its own, and does not keep the other entries from being
\* returned.
FetchSkipsUndatedEntries ==
    [][\A r \in RunIds :
          (sess[r].pc = "loaded" /\ sess'[r].pc = "fetched") =>
              LET out == sess'[r].raw_records
                  dated == SelectSeq(ubatch.records,
                                     LAMBDA item : item.last_updated \in IsoTimestamps)
              IN  /\ \A i \in 1..Len(out) : out[i].source_updated_at \in Timestamps
                  /\ sess[r].last_checkpoint = NoCheckpoint =>
                        /\ Len(out) = Len(dated)
                        /\ \A i \in 1..Len(out) :
                              /\ out[i].id = dated[i].id
                              /\ out[i].symbol = dated[i].symbol
                              /\ out[i].source_updated_at =
                                    fromisoformat(dated[i].last_updated)]_vars

\* a response of two entries, the first without last_updated, has been fetched
\* by a run on a source without checkpoint: the second entry alone is handed on
WitnessUndatedEntrySkipped ==
    \E r \in RunIds :
        /\ sess[r].pc = "fetched"
        /\ sess[r].last_checkpoint = NoCheckpoint
        /\ Len(ubatch.records) = 2
        /\ ubatch.records[1].last_updated = NULL
        /\ Len(sess[r].raw_records) = 1
        /\ sess[r].raw_records[1].source_updated_at = 2

\* C30: when a run with a non-empty filtered batch succeeds, the checkpoint of
\* its source is the greatest source_updated_at of the filtered batch, the
\* records without a symbol and the records removed as duplicates included.
CheckpointIsNewestOfFilteredBatch ==
    [][\A r \in RunIds :
          (BecomesSuccess(r) /\ sess[r].raw_records # <<>>) =>
              LET stamps == {sess[r].raw_records[i].source_updated_at :
                                i \in 1..Len(sess[r].raw_records)}
              IN  /\ ckpt'[runs[r].source_name] \in stamps
                  /\ \A t \in stamps : t <= ckpt'[runs[r].source_name]]_vars

\* a run stored a record without a symbol dated 2 and the record btc dated 1:
\* CanonicalAsset holds btc dated 1 only and the checkpoint is 2
WitnessCheckpointFromDroppedRecord ==
    /\ Len(runs) = 1
    /\ runs[1].status = "success"
    /\ Len(raw[runs[1].source_name]) = 2
    /\ \E k \in 1..2 : NoSymbol(raw[runs[1].source_name][k].payload)
    /\ \A t \in canon : t.source_updated_at = 1
    /\ canon # {}
    /\ ckpt[runs[1].source_name] = 2

-----------------------------------------------------------------------------
(* Properties of the resolution strategies (SpecMappings) *)

\* the mappings the strategies of resolve choose among for a call, by the
\* mapping table maps alone: those holding the provider id if there are any,
\* else those of the symbol (one of them, or those of the same normalized name
\* if there are several and some have it), else none
StrategyCandidates(maps, source, symbol, name, id) ==
    LET byId == {m \in maps :
                    /\ id # NULL /\ id # ""
                    /\ \/ source = "coingecko" /\ m.coingecko_id = id
                       \/ source = "coinpaprika" /\ m.coinpaprika_id = id}
        bySymbol == {m \in maps : m.symbol = Upper(symbol)}
        byName == {m \in bySymbol : normalize_name(m.name) = normalize_name(name)}
    IN  IF byId # {} THEN byId
        ELSE IF Cardinality(bySymbol) > 1 /\ byName # {} THEN byName
        ELSE bySymbol

\* the call of resolve made by this step agrees with the strategies
FollowsStrategies ==
    LET cands == StrategyCandidates(mappings, last'.source, last'.symbol,
                                    last'.name, last'.id)
    IN  IF cands = {}
        THEN /\ last'.strategy \in {"new", "cache"}
             /\ last'.asset_uid =
                    generate_canonical_id(
                        IF last'.source = "coingecko" THEN last'.id ELSE NULL,
                        IF last'.source = "coinpaprika" THEN last'.id ELSE NULL,
                        last'.symbol, last'.name)
        ELSE last'.asset_uid \in {m.asset_uid : m \in cands}

\* C31: every call of resolve that the cache does not answer returns the
\* asset_uid of a mapping that holds the record's provider id when there is
\* one, whatever the symbol; otherwise of the mapping of the record's
\* upper-cased symbol, among several of one with the record's normalized name
\* if there is one; and it synthesizes a new asset_uid only when no mapping has
\* the provider id or the symbol.
ResolveFollowsStrategyOrder ==
    [][(ncalls' # ncalls /\ last'.strategy # "cache") => FollowsStrategies]_vars

\* a call was answered by the symbol while two mappings held that symbol
WitnessSymbolWithSeveralMappings ==
    /\ last.strategy = "symbol_name"
    /\ Cardinality({m \in mappings : m.symbol = Upper(last.symbol)}) >= 2

\* C32: a call of resolve that finds neither the provider id nor the symbol in
\* the mapping table returns the synthesized asset_uid and adds one mapping row
\* with that asset_uid: the table has one row more and every row it held is
\* unchanged.
NewAssetAddsOneRow ==
    [][(ncalls' # ncalls /\ last'.strategy = "new") =>
          /\ last'.asset_uid =
                generate_canonical_id(
                    IF last'.source = "coingecko" THEN last'.id ELSE NULL,
                    IF last'.source = "coinpaprika" THEN last'.id ELSE NULL,
                    last'.symbol, last'.name)
          /\ \E m \in mappings' : m.asset_uid = last'.asset_uid
          /\ Cardinality(mappings') = Cardinality(mappings) + 1
          /\ mappings \subseteq mappings']_vars

-----------------------------------------------------------------------------
(* Properties of the Run rows (Spec) *)

\* C33: when a run with a non-empty filtered batch succeeds, records_processed
\* of its Run row is the number of normalized rows it upserted, which is the
\* number of distinct asset_uids (lower-cased symbols) among the records of the
\* batch that have a symbol.
RecordsProcessedCountsNormalizedRows ==
    [][\A r \in RunIds :
          (BecomesSuccess(r) /\ sess[r].raw_records # <<>>) =>
              LET recs == sess[r].raw_records
                  uids == {Lower(Upper(recs[i].symbol)) :
                              i \in {k \in 1..Len(recs) : ~NoSymbol(recs[k])}}
              IN  /\ runs'[r].records_processed = Cardinality(uids)
                  /\ runs'[r].records_processed = Len(sess[r].tx.canon)]_vars

\* a run that fetched two records of the asset btc has succeeded: two raw rows,
\* one row processed
WitnessDuplicatesCountedOnce ==
    /\ Len(runs) = 1
    /\ runs[1].status = "success"
    /\ runs[1].records_processed = 1
    /\ Len(raw[runs[1].source_name]) = 2
    /\ \A k \in 1..2 : raw[runs[1].source_name][k].payload.symbol = "btc"

\* C34: in every state a Run row of status running has no ended_at and no
\* error_message, a Run row of status success has an ended_at and no
\* error_message, and a Run row of status failure has an ended_at, an
\* error_message and records_processed = 0.
RunRowMatchesItsStatus ==
    \A r \in RunIds :
        /\ runs[r].status \in {"running", "success", "failure"}
        /\ runs[r].status = "running" =>
              runs[r].ended_at = 0 /\ runs[r].error_message = NULL
        /\ runs[r].status = "success" =>
              runs[r].ended_at # 0 /\ runs[r].error_message = NULL
        /\ runs[r].status = "failure" =>
              /\ runs[r].ended_at # 0
              /\ runs[r].error_message # NULL
              /\ runs[r].records_processed = 0

\* a run that failed in its upsert, after normalizing its batch, and a run that
\* processed records are both on record
WitnessFailedAndSucceededRows ==
    /\ \E r \in RunIds :
          runs[r].status = "failure" /\ runs[r].error_message = "upsert failed"
    /\ \E r \in RunIds :
          runs[r].status = "success" /\ runs[r].records_processed >= 1

-----------------------------------------------------------------------------
(* Properties of the runner as a step of the runs (SpecRerun) *)

\* C35: the fetch step of a run (IngestionRunner.run) writes nothing: the
\* checkpoints, the tables, the Run rows and the other runs are as before; and
\* what it returns is decided by the provider's data and the checkpoint it was
\* given alone, so that a second call with the same data and the same
\* checkpoint returns the same records.
RunnerWritesNothingAndIsAFunction ==
    [][\A r \in RunIds :
          (sess[r].pc = "loaded" /\ sess'[r].pc = "fetched") =>
              /\ TablesUnchanged
              /\ runs' = runs
              /\ \A q \in RunIds \ {r} : sess'[q] = sess[q]
              /\ sess'[r].raw_records =
                    filter_incremental(ubatch.records, sess[r].last_checkpoint)
              /\ sess[r].last_checkpoint = NoCheckpoint =>
                    sess'[r].raw_records = ubatch.records]_vars

\* the first run fetched the listing and failed while storing it; the second
\* run, with the same (empty) checkpoint, has fetched the same listing again
WitnessRunnerCalledTwice ==
    /\ Len(runs) = 2
    /\ ubatch.records # <<>>
    /\ runs[1].status = "failure" /\ runs[1].error_message = "persist_raw failed"
    /\ sess[2].pc = "fetched"
    /\ sess[2].last_checkpoint = NoCheckpoint
    /\ sess[2].raw_records = ubatch.records

\* C36: when one source's fetch raises during IngestionRunner.run, the call
\* still ends by returning, and what it returns holds an entry for every
\* other source of the runner.
RunnerContinuesAfterFailingSource ==
    runner.failed # {} =>
        /\ runner.pc \in {"running", "returned"}
        /\ (runner.pc = "returned" =>
              {e.source : e \in runner.aggregated}
                 = {runner.sources[i] : i \in 1..Len(runner.sources)} \ runner.failed)

\* the positions of data whose symbol is the given one
ListedAt(data, symbol) == {k \in 1..Len(data) : Upper(data[k].symbol) = symbol}

\* the first position, among those of the symbol, of the greatest market cap
BestPosition(data, symbol) ==
    CHOOSE k \in ListedAt(data, symbol) :
        \A j \in ListedAt(data, symbol) :
            \/ data[j].market_cap < data[k].market_cap
            \/ data[j].market_cap = data[k].market_cap /\ j >= k

KeepsBestPerSymbol(data) ==
    LET lookup == build_symbol_lookup(data)
    IN  /\ \A e \in lookup : \E k \in 1..Len(data) : data[k] = e
        /\ \A k \in 1..Len(data) :
              LET symbol == Upper(data[k].symbol)
              IN  symbol # "" =>
                     {e \in lookup : Upper(e.symbol) = symbol}
                        = {data[BestPosition(data, symbol)]}

\* C37: the lookup table _bootstrap builds from one provider's data holds, for
\* every symbol of the data, exactly the entry of that symbol with the highest
\* market cap, and the first such entry when several share that market cap.
LookupKeepsHighestMarketCap ==
    last.source = "bootstrap" =>
        KeepsBestPerSymbol(last.coingecko_data) /\ KeepsBestPerSymbol(last.coinpaprika_data)

\* a bootstrap whose CoinGecko data lists a symbol twice with the same market cap
WitnessSymbolListedTwice ==
    /\ last.source = "bootstrap"
    /\ Len(last.coingecko_data) = 2
    /\ last.coingecko_data[1].symbol = last.coingecko_data[2].symbol
    /\ last.coingecko_data[1].market_cap = last.coingecko_data[2].market_cap

\* rows is a list of rows with a symbol, no two of the same asset_uid
OneRowPerAsset(rows) ==
    /\ \A i \in 1..Len(rows) : rows[i].symbol # "" /\ rows[i].asset_uid # ""
    /\ \A i, j \in 1..Len(rows) : rows[i].asset_uid = rows[j].asset_uid => i = j

\* C38: the normalized output of a run holds at most one row per asset_uid and
\* only rows with a non-empty symbol, and so do the rows of the upsert
\* statement the run has pending.
NormalizedOutputHasOneRowPerAsset ==
    \A r \in RunIds :
        /\ OneRowPerAsset(sess[r].normalized)
        /\ OneRowPerAsset(sess[r].tx.canon)

\* a run has its upsert pending for a batch of two records of one asset
WitnessUpsertOfDeduplicatedBatch ==
    \E r \in RunIds :
        /\ sess[r].pc = "upserted"
        /\ Len(sess[r].raw_records) = 2
        /\ Upper(sess[r].raw_records[1].symbol) = Upper(sess[r].raw_records[2].symbol)
        /\ Len(sess[r].tx.canon) = 1

\* C39: every load_checkpoint(s) returns, without raising, the data of the
\* latest completed save_checkpoint(s, .) that no delete_checkpoint(s) has
\* followed, and None when there is none.
LoadReturnsLatestSavedData ==
    cpcall.op = "load" => cpcall.result = Returned(saved[cpcall.source])

\* for data the JSON document keeps as given (string keys), a load returns
\* the latest completed save unless a later save raised part-way
LoadReturnsLatestJsonData ==
    (/\ cpcall.op = "load"
     /\ \A d \in saved[cpcall.source] : d.key_type = "str"
     /\ checkpoint_dir[cpcall.source].text # "truncated")
        => cpcall.result = Returned(saved[cpcall.source])

====
